---- MODULE Spec2Model ----
(***************************************************************************)
(* Digest scheduling of the news aggregator bot.                           *)
(*                                                                         *)
(* State: the profile store (NewsAggregatorBot.users_data), the job        *)
(* registry of the `schedule` library (schedule.jobs), the wall clock and  *)
(* the position of the scheduler thread (DigestScheduler._run_scheduler).  *)
(* Time is counted in minutes from Monday 00:00 of the first week.         *)
(***************************************************************************)
EXTENDS Integers, Sequences, FiniteSets, TLC

VARIABLES
    users_data,   \* NewsAggregatorBot.users_data: user id -> profile or NoProfile
    jobs,         \* schedule.jobs: the registry, in insertion order; a job is
                  \* `busy` while run_pending holds it in its list of runnable jobs
    now,          \* datetime.now(), minutes since Monday 00:00 of week 0
    running,      \* DigestScheduler.running
    pc,           \* scheduler thread: "none", "sleep", "pending", "job"
    queue,        \* run_pending: the runnable jobs still to run in this tick
    cur,          \* the job whose _send_digest_job is executing, or NoJob
    ret,          \* value returned by the last get_next_digest_time call
    last,         \* the operation that produced this state
    data_file,    \* bot_data.json: the store as save_data wrote it last
    handler,      \* the call the main thread is inside: schedule_user_digest between
                  \* its statements, or the join of stop_scheduler; NoCall otherwise
    threads,      \* the loop threads started by start_scheduler, each "check",
                  \* "pending", "sleep" or "dead" (followed where start and stop are called)
    input_news,      \* news_list given to remove_duplicates and filter_news
    input_keywords,  \* keywords given to filter_news (None and [] alike: <<>>)
    input_exclude,   \* exclude_keywords given to filter_news
    user_data,    \* argument of fetch_news: topics, sources, language
    world,        \* what the RSS feeds and the two REST services answer
    returned,     \* the last call of a news function and what it returned
    last_news     \* context.user_data["last_news"]: the list the user saw last

sched_vars == <<users_data, jobs, now, running, pc, queue, cur, ret, last, data_file, handler,
               threads>>
news_vars == <<input_news, input_keywords, input_exclude, user_data, world, returned,
               last_news>>
vars == <<sched_vars, news_vars>>

-----------------------------------------------------------------------------
(* Bounds and input domains *)

MaxDay == 2                       \* Spec: the clock stops on this day
TickDays == 1                     \* SpecTick: the clock stops on this day
CycleDays == 15                   \* SpecCycle: the clock stops on this day
QueryDays == 7                    \* SpecQuery: the clock stops on this day
MaxWait == 1                      \* clock readings that pass while one job executes
ConfigDays == 1        \* days of clock in the specification of rejected updates
MaxNews == 3           \* longest list given to remove_duplicates and filter_news
FeedPage == 3          \* entries of a long RSS feed
ApiPage == 6           \* articles of a long REST answer
MaxTopics == 2         \* longest topic list of the specification of the profile store
RaceDays == 1          \* days of clock in the specification of the two threads
Users == {1, 2}
Active == {1}                     \* Spec: the users who send commands
ClockHours == {9, 10}             \* hours of the day at which the clock is read

(* Calendar *)
DaysPerWeek == 7
Monday == 0
Friday == 4
MinutesPerHour == 60
MinutesPerDay == 24 * MinutesPerHour
NoDay == -1                       \* a job made by every().day has no start_day

NoProfile == [none |-> TRUE]
NoJob == [none |-> TRUE]
NoCall == [none |-> TRUE]
NoRet == [kind |-> "none"]

(* digest_time strings "HH:MM": hour, minute, and whether the hour is      *)
(* written with two digits ("09:00") or one ("9:00").                      *)
T(h, m, pad) == [h |-> h, m |-> m, pad |-> pad]
TimeArgs == {T(9, 0, TRUE), T(10, 0, TRUE), T(25, 0, TRUE)}
FreqArgs == {"daily", "weekly", "weekdays", "hourly"}
valid_frequencies == {"daily", "weekly", "weekdays"}

Profile(e, t, f) ==
    [digest_enabled |-> e, digest_time |-> t, digest_frequency |-> f,
     topics |-> <<>>, sources |-> <<"rss">>, language |-> "ru"]
DefaultProfile == Profile(FALSE, T(9, 0, TRUE), "daily")
PersistedProfiles == {Profile(TRUE, T(9, 0, TRUE), "daily"),
                      Profile(TRUE, T(10, 0, TRUE), "weekdays")}

-----------------------------------------------------------------------------
(* datetime arithmetic *)

DayOf(t) == t \div MinutesPerDay
Weekday(t) == DayOf(t) % DaysPerWeek
TimeOfDay(t) == t % MinutesPerDay
Days(n) == n * MinutesPerDay
\* datetime.replace(hour=h, minute=m, second=0, microsecond=0)
ReplaceTime(t, h, m) == Days(DayOf(t)) + h * MinutesPerHour + m

-----------------------------------------------------------------------------
(* The `schedule` library as scheduler.py uses it: every().day.at(t),      *)
(* every().<weekday>.at(t), do(), tag(), clear(tag), run_pending().        *)

\* Job.at(): a daily or weekday job accepts only "HH:MM" with a two-digit hour
AtAccepts(t) == t.pad /\ t.h \in 0..23 /\ t.m \in 0..59

Period(start_day) == IF start_day = NoDay THEN Days(1) ELSE Days(DaysPerWeek)

\* the first day not before t that falls on weekday d
MoveToNextWeekday(t, d) ==
    LET days_ahead == d - Weekday(t)
    IN  t + Days(IF days_ahead < 0 THEN days_ahead + DaysPerWeek ELSE days_ahead)

\* (changed: a slot equal to the current time is kept)
ScheduleNextRun_Lax(n, start_day, at) ==
    LET moved == IF start_day = NoDay THEN n ELSE MoveToNextWeekday(n, start_day)
        next_run == Days(DayOf(moved)) + at
    IN  IF next_run < n THEN next_run + Period(start_day) ELSE next_run

\* Job._schedule_next_run, called by do() and after every run of the job:
\* the first occurrence of the job's slot strictly after the current time
ScheduleNextRun(n, start_day, at) ==
    LET moved == IF start_day = NoDay THEN n ELSE MoveToNextWeekday(n, start_day)
        next_run == Days(DayOf(moved)) + at
    IN  IF next_run <= n THEN next_run + Period(start_day) ELSE next_run

\* schedule.every().<unit>.at(digest_time).do(_send_digest_job, user_id).tag(user)
AddJob(js, u, start_day, t, n) ==
    LET at == t.h * MinutesPerHour + t.m
    IN  Append(js, [user |-> u, start_day |-> start_day, at |-> at,
                    next_run |-> ScheduleNextRun(n, start_day, at), busy |-> FALSE])

RECURSIVE AddJobs(_, _, _, _, _)
AddJobs(js, u, days, t, n) ==
    IF days = <<>> THEN js
    ELSE AddJobs(AddJob(js, u, Head(days), t, n), u, Tail(days), t, n)

\* Job.should_run
ShouldRun(j, n) == n >= j.next_run

\* sorted(runnable_jobs): ascending next_run, ties in registry order
RECURSIVE Insert(_, _)
Insert(sorted, j) ==
    IF sorted = <<>> THEN <<j>>
    ELSE IF j.next_run < Head(sorted).next_run THEN <<j>> \o sorted
    ELSE <<Head(sorted)>> \o Insert(Tail(sorted), j)

RECURSIVE SortJobs(_)
SortJobs(js) ==
    IF js = <<>> THEN <<>> ELSE Insert(SortJobs(SubSeq(js, 1, Len(js) - 1)), js[Len(js)])

Runnable(js, n) == SortJobs(SelectSeq(js, LAMBDA j : ShouldRun(j, n)))

UserJobs(js, u) == SelectSeq(js, LAMBDA j : j.user = u)

-----------------------------------------------------------------------------
(* DigestScheduler *)

\* (changed: the old jobs are left in the registry)
RemoveUserJobs_Keep(js, u) == js

\* _remove_user_jobs: schedule.clear("user_<id>")
RemoveUserJobs(js, u) == SelectSeq(js, LAMBDA j : j.user # u)

\* the weekdays branch registers Monday .. Friday, in this order
\* (changed: a job for each day of the week)
WeekdayJobs_AllWeek == [i \in 1..DaysPerWeek |-> Monday + i - 1]
WeekdayJobs == [i \in 1..(Friday - Monday + 1) |-> Monday + i - 1]

\* schedule_user_digest(user_id, user_data) at time n
ScheduleUserDigest(js, u, p, n) ==
    IF ~p.digest_enabled THEN js
    ELSE LET t == p.digest_time
             frequency == p.digest_frequency
         IN  IF ~(t.h \in 0..23 /\ t.m \in 0..59) THEN js     \* dt_time raises
             ELSE LET cleared == RemoveUserJobs(js, u)
                  IN  IF ~AtAccepts(t) THEN cleared            \* at() raises
                      ELSE IF frequency = "daily"
                             THEN AddJob(cleared, u, NoDay, t, n)
                      ELSE IF frequency = "weekly"
                             THEN AddJob(cleared, u, Monday, t, n)
                      ELSE IF frequency = "weekdays"
                             THEN AddJobs(cleared, u, WeekdayJobs, t, n)
                      ELSE cleared

\* strftime('%d.%m.%Y %H:%M'): the date and the time of day, seconds dropped
Strftime(t) ==
    [kind |-> "time", date |-> DayOf(t),
     hour |-> TimeOfDay(t) \div MinutesPerHour, minute |-> TimeOfDay(t) % MinutesPerHour]

\* (changed: today's slot is kept when now equals it)
NextDaily_Lax(n, h, m) ==
    LET next_time == ReplaceTime(n, h, m)
    IN  IF next_time < n THEN next_time + Days(1) ELSE next_time

\* get_next_digest_time, frequency 'daily'
NextDaily(n, h, m) ==
    LET next_time == ReplaceTime(n, h, m)
    IN  IF next_time <= n THEN next_time + Days(1) ELSE next_time

\* get_next_digest_time, frequency 'weekly'
NextWeekly(n, h, m) ==
    LET d == DaysPerWeek - Weekday(n)
        days_ahead == IF d = DaysPerWeek THEN 0 ELSE d
    IN  ReplaceTime(n + Days(days_ahead), h, m)

\* get_next_digest_time, frequency 'weekdays'
NextWeekdays(n, h, m) ==
    LET d == 1 - Weekday(n)
        days_ahead == IF d <= 0 THEN d + 5 ELSE d
    IN  ReplaceTime(n + Days(days_ahead), h, m)

\* get_next_digest_time for profile p at time n
NextDigestTime(p, n) ==
    IF ~p.digest_enabled THEN [kind |-> "disabled"]
    ELSE LET h == p.digest_time.h
             m == p.digest_time.m
             frequency == p.digest_frequency
         IN  IF ~(h \in 0..23 /\ m \in 0..59) THEN [kind |-> "error"]
             ELSE IF frequency = "daily" THEN Strftime(NextDaily(n, h, m))
             ELSE IF frequency = "weekly" THEN Strftime(NextWeekly(n, h, m))
             ELSE IF frequency = "weekdays" THEN Strftime(NextWeekdays(n, h, m))
             ELSE [kind |-> "error"]

-----------------------------------------------------------------------------
(* NewsAggregatorBot: the profile store *)

\* a get_user_data that writes the default profile on every access
GetUserData_Reset(ud, u) == [ud EXCEPT ![u] = DefaultProfile]

\* get_user_data: the store after the call (a default profile on first access)
GetUserData(ud, u) ==
    IF ud[u] = NoProfile THEN [ud EXCEPT ![u] = DefaultProfile] ELSE ud

\* a key list without digest_time
SchedulingKeys_NoTime == {"digest_enabled", "digest_frequency"}

\* the keys of an update that make update_user_data call the scheduler
SchedulingKeys == {"digest_enabled", "digest_time", "digest_frequency"}

\* dict.update(data) on one profile; a key of data the profile lacks is added
Merge(p, data) ==
    [k \in DOMAIN p \cup DOMAIN data |-> IF k \in DOMAIN data THEN data[k] ELSE p[k]]

\* update_user_data(user_id, data): the store and the registry after the call.
\* For a user not in the store the first statement raises KeyError and
\* nothing changes.
UpdateUserData(ud, js, u, data, n) ==
    IF ud[u] = NoProfile
      THEN [users_data |-> ud, jobs |-> js, ok |-> FALSE, saved |-> FALSE,
            scheduled |-> FALSE, keys |-> DOMAIN data]
    ELSE LET merged == [ud EXCEPT ![u] = Merge(ud[u], data)]
         IN  [users_data |-> merged,
              jobs |-> IF DOMAIN data \cap SchedulingKeys # {}
                         THEN ScheduleUserDigest(js, u, merged[u], n)
                         ELSE js,
              ok |-> TRUE, saved |-> TRUE,
              scheduled |-> DOMAIN data \cap SchedulingKeys # {},
              keys |-> DOMAIN data]

\* datetime.strptime(time_str, '%H:%M') succeeds (one or two hour digits)
StrptimeAccepts(t) == t.h \in 0..23 /\ t.m \in 0..59

\* the name `context` is bound in send_digest: it is no parameter, local or
\* module-level name there, so line 1058 raises NameError
ContextBound == FALSE

\* (changed: digest_enabled is not looked at)
SendDigest_NoCheck(enabled, news) ==
    IF news = "disabled" THEN <<"fetch_news", "error">>
    ELSE IF ~ContextBound THEN <<"fetch_news", "error">>
    ELSE IF news = "empty" THEN <<"fetch_news">>
    ELSE <<"fetch_news", "format_digest">>

\* send_digest(user_id), fetch_news returning `news` ("items" or "empty"):
\* the stages it performs, in order
SendDigest(enabled, news) ==
    IF ~enabled THEN <<>>
    ELSE IF ~ContextBound THEN <<"fetch_news", "error">>
    ELSE IF news = "empty" THEN <<"fetch_news">>
    ELSE <<"fetch_news", "format_digest">>       \* delivery is a log line only

\* (changed: no try/except around the event loop)
SendDigestJob_NoCatch(outcome) ==
    IF outcome = "loop_error" THEN "raised" ELSE "returned"

\* _send_digest_job as seen by run_pending: "returned" or "raised".
\* outcome "loop_error": creating or running the event loop raises.
SendDigestJob(outcome) == "returned"     \* except Exception: the error is logged

\* the job of the registry that run_pending holds as j, if it is still there
Same(j, k) == k.busy /\ k.user = j.user /\ k.start_day = j.start_day

-----------------------------------------------------------------------------
(* Strings.  A str is the sequence of its characters; a character outside  *)
(* ASCII is written as its code point.                                     *)

UpperCase == <<"A", "B", "C", "D", "E", "F", "G", "H", "I", "J", "K", "L", "M",
               "N", "O", "P", "Q", "R", "S", "T", "U", "V", "W", "X", "Y", "Z",
               "U+0420">>
LowerCase == <<"a", "b", "c", "d", "e", "f", "g", "h", "i", "j", "k", "l", "m",
               "n", "o", "p", "q", "r", "s", "t", "u", "v", "w", "x", "y", "z",
               "U+0440">>
Whitespace == {" ", "\t", "\n"}

LowerChar(c) ==
    IF \E i \in DOMAIN UpperCase : UpperCase[i] = c
      THEN LowerCase[CHOOSE i \in DOMAIN UpperCase : UpperCase[i] = c]
      ELSE c

\* str.lower()
Lower(s) == IF s = <<>> THEN <<>> ELSE [i \in 1..Len(s) |-> LowerChar(s[i])]

\* str.strip()
Strip(s) ==
    LET inner == {i \in 1..Len(s) : s[i] \notin Whitespace}
    IN  IF inner = {} THEN <<>>
        ELSE SubSeq(s, CHOOSE i \in inner : \A j \in inner : i <= j,
                       CHOOSE i \in inner : \A j \in inner : i >= j)

\* a in b, for two str
In(a, b) == \E i \in 1..(Len(b) - Len(a) + 1) : SubSeq(b, i, i + Len(a) - 1) = a

\* list[:n]
Take(list, n) == SubSeq(list, 1, IF Len(list) < n THEN Len(list) ELSE n)

(* Values of a dict entry: a str, None, or no entry for the key *)
Str(s) == [s |-> s]
None == [none |-> TRUE]
Absent == [absent |-> TRUE]
IsStr(v) == "s" \in DOMAIN v

\* dict.get(key, default)
Get(v, default) == IF v = Absent THEN Str(default) ELSE v

\* a news item: the entries of the dict that the filters read
NewsItem(title, description) == [title |-> title, description |-> description]

-----------------------------------------------------------------------------
(* NewsFilter *)

keywords_blacklist ==
    <<<<"U+0440", "U+0435", "U+043A", "U+043B", "U+0430", "U+043C", "U+0430">>,
      <<"a", "d", "v", "e", "r", "t", "i", "s", "e", "m", "e", "n", "t">>,
      <<"s", "p", "o", "n", "s", "o", "r", "e", "d">>,
      <<"U+043F", "U+0440", "U+043E", "U+043C", "U+043E">>,
      <<"U+0430", "U+043A", "U+0446", "U+0438", "U+044F">>,
      <<"U+0441", "U+043A", "U+0438", "U+0434", "U+043A", "U+0430">>,
      <<"s", "a", "l", "e">>,
      <<"d", "i", "s", "c", "o", "u", "n", "t">>>>

\* news['title'].lower() and news.get('description', '').lower() raise on a
\* value that is no str (AttributeError) or on a missing title (KeyError)
Readable(news) == IsStr(news.title) /\ IsStr(Get(news.description, <<>>))

\* (changed: the text keeps its case)
Text_RawCase(news) == news.title.s \o <<" ">> \o Get(news.description, <<>>).s

\* filter_news: f"{title_lower} {description_lower}"
Text(news) == Lower(news.title.s) \o <<" ">> \o Lower(Get(news.description, <<>>).s)

\* any(keyword.lower() in text for keyword in keywords)
AnyIn(keywords, text) == \E i \in DOMAIN keywords : In(Lower(keywords[i]), text)

\* (changed: an include keyword is looked at before the exclude keywords)
Keeps_IncludeFirst(news, keywords, exclude_keywords) ==
    LET text == Text(news)
    IN  IF \E i \in DOMAIN keywords_blacklist : In(keywords_blacklist[i], text)
          THEN FALSE
        ELSE IF keywords # <<>> /\ AnyIn(keywords, text) THEN TRUE
        ELSE IF exclude_keywords # <<>> /\ AnyIn(exclude_keywords, text) THEN FALSE
        ELSE keywords = <<>>

\* filter_news, one pass of the loop: is the item appended?
\* (keywords None and keywords [] take the same branches: both are <<>> here)
Keeps(news, keywords, exclude_keywords) ==
    LET text == Text(news)
    IN  IF \E i \in DOMAIN keywords_blacklist : In(keywords_blacklist[i], text)
          THEN FALSE
        ELSE IF exclude_keywords # <<>> /\ AnyIn(exclude_keywords, text) THEN FALSE
        ELSE IF keywords # <<>> THEN AnyIn(keywords, text)
        ELSE TRUE

FilterNewsRaises(news_list) == \E i \in DOMAIN news_list : ~Readable(news_list[i])

\* NewsFilter.filter_news(news_list, keywords, exclude_keywords)
FilterNews(news_list, keywords, exclude_keywords) ==
    LET Kept(news) == Keeps(news, keywords, exclude_keywords)
    IN  SelectSeq(news_list, Kept)

\* (changed: the title is compared as written, without lower())
NormTitle_Raw(news) == Strip(news.title.s)

\* remove_duplicates: news['title'].lower().strip()
NormTitle(news) == Strip(Lower(news.title.s))

RECURSIVE Dedup(_, _, _)
Dedup(news_list, seen_titles, unique_news) ==
    IF news_list = <<>> THEN unique_news
    ELSE LET news == Head(news_list)
             title == NormTitle(news)
         IN  IF title \notin seen_titles
               THEN Dedup(Tail(news_list), seen_titles \cup {title},
                          Append(unique_news, news))
               ELSE Dedup(Tail(news_list), seen_titles, unique_news)

RemoveDuplicatesRaises(news_list) ==
    \E i \in DOMAIN news_list : ~IsStr(news_list[i].title)

Reverse(s) == IF s = <<>> THEN <<>> ELSE [i \in 1..Len(s) |-> s[Len(s) + 1 - i]]

\* (changed: the last item of each title is kept, not the first)
RemoveDuplicates_Last(news_list) == Reverse(Dedup(Reverse(news_list), {}, <<>>))

\* NewsFilter.remove_duplicates(news_list)
RemoveDuplicates(news_list) == Dedup(news_list, {}, <<>>)

-----------------------------------------------------------------------------
(* NewsFetcher.  `world` holds what the three backends answer during one   *)
(* fetch_news call: per RSS feed and per REST service either a failure     *)
(* (no key, network error, bad status, unparseable body) or the entries.   *)

Down == [ok |-> FALSE, entries |-> <<>>]
Ok(entries) == [ok |-> TRUE, entries |-> entries]

FeedsRead == 3              \* feeds[:3]
DefaultTitle == <<"U+0411", "U+0435", "U+0437", " ", "U+0437", "U+0430", "U+0433", "U+043E", "U+043B", "U+043E", "U+0432", "U+043A", "U+0430">>

\* len(self.rss_feeds[language]), 'ru' for an unknown language
FeedCount(language) == IF language = "en" THEN 4 ELSE 5

\* an <item> of a feed: the text of its <title> and of its <summary>.  The
\* text of <description> is never read: an element without children is
\* false, so `item.find('description') or item.find('summary')` is the summary
Entry(title, summary) == [title |-> title, summary |-> summary]

\* _parse_rss_item: an item, or no item when the title is missing or empty
ParseRssItem(entry) ==
    LET title == IF IsStr(entry.title) /\ entry.title.s # <<>>
                   THEN Strip(entry.title.s) ELSE <<>>
        description == IF IsStr(entry.summary) THEN Strip(entry.summary.s) ELSE <<>>
    IN  IF title = <<>> THEN <<>> ELSE <<NewsItem(Str(title), Str(description))>>

RECURSIVE ParseRssItems(_)
ParseRssItems(entries) ==
    IF entries = <<>> THEN <<>>
    ELSE ParseRssItem(Head(entries)) \o ParseRssItems(Tail(entries))

\* one pass of the loop over feeds: items[:items_to_process], parsed
FetchFeed(feed, language, limit) ==
    LET share == limit \div FeedCount(language)
        items_to_process == IF share < 1 THEN 1 ELSE share
    IN  IF feed.ok THEN ParseRssItems(Take(feed.entries, items_to_process)) ELSE <<>>

RECURSIVE FetchFeeds(_, _, _)
FetchFeeds(feeds, language, limit) ==
    IF feeds = <<>> THEN <<>>
    ELSE FetchFeed(Head(feeds), language, limit) \o FetchFeeds(Tail(feeds), language, limit)

\* NewsFetcher.fetch_rss_news(language, limit)
FetchRssNews(w, language, limit) ==
    Take(FetchFeeds(Take(w.rss, FeedsRead), language, limit), limit)

\* an article of a REST answer -> news item
ArticleItem(article) ==
    NewsItem(Get(article.title, DefaultTitle), Get(article.description, <<>>))

\* NewsFetcher.fetch_api_news(language, country, limit)
FetchApiNews(w) ==
    IF w.api.ok THEN [i \in DOMAIN w.api.entries |-> ArticleItem(w.api.entries[i])]
    ELSE <<>>

\* NewsFetcher.fetch_mediastack_news(language, countries, limit)
FetchMediastackNews(w) ==
    IF w.mediastack.ok
      THEN [i \in DOMAIN w.mediastack.entries |-> ArticleItem(w.mediastack.entries[i])]
      ELSE <<>>

\* get_news_by_topics: topic_lower in title_lower or topic_lower in description_lower
OnTopic(news, topics) ==
    \E i \in DOMAIN topics :
        \/ In(Lower(topics[i]), Lower(news.title.s))
        \/ In(Lower(topics[i]), Lower(Get(news.description, <<>>).s))

TopicPool(w, language, limit) == FetchRssNews(w, language, limit) \o FetchApiNews(w)

GetNewsByTopicsRaises(w, language, limit) ==
    \E i \in DOMAIN TopicPool(w, language, limit) :
        ~Readable(TopicPool(w, language, limit)[i])

\* NewsFetcher.get_news_by_topics(topics, language, limit)
GetNewsByTopics(w, topics, language, limit) ==
    LET Match(news) == OnTopic(news, topics)
    IN  Take(SelectSeq(TopicPool(w, language, limit), Match), limit)

-----------------------------------------------------------------------------
(* NewsAggregatorBot.fetch_news *)

NewsCap == 10               \* final_news[:10]
SourceLimit == 10           \* fetch_rss_news(language, 10), fetch_api_news(.., 10)
TopicsLimit == 15           \* get_news_by_topics(topics, language, 15)

\* the adapter calls of fetch_news(user_data), in order
FetchNewsCalls(ud) ==
    (IF "rss" \in ud.sources THEN <<"fetch_rss_news">> ELSE <<>>)
    \o (IF "api" \in ud.sources
          THEN <<"fetch_api_news", "fetch_mediastack_news">> ELSE <<>>)
    \o (IF ud.topics # <<>> THEN <<"fetch_rss_news", "fetch_api_news">> ELSE <<>>)

\* all_news before remove_duplicates
AllNews(ud, w) ==
    (IF "rss" \in ud.sources THEN FetchRssNews(w, ud.language, SourceLimit) ELSE <<>>)
    \o (IF "api" \in ud.sources
          THEN FetchApiNews(w) \o FetchMediastackNews(w) ELSE <<>>)
    \o (IF ud.topics # <<>>
          THEN GetNewsByTopics(w, ud.topics, ud.language, TopicsLimit) ELSE <<>>)

\* an exception inside the try block of fetch_news
FetchNewsRaises(ud, w) ==
    \/ ud.topics # <<>> /\ GetNewsByTopicsRaises(w, ud.language, TopicsLimit)
    \/ RemoveDuplicatesRaises(AllNews(ud, w))
    \/ FilterNewsRaises(RemoveDuplicates(AllNews(ud, w)))

\* (changed: the returned is not cut)
FetchNews_NoCap(ud, w) ==
    IF FetchNewsRaises(ud, w) THEN <<>>
    ELSE FilterNews(RemoveDuplicates(AllNews(ud, w)), <<>>, <<>>)

\* NewsAggregatorBot.fetch_news(user_data)
FetchNews(ud, w) ==
    IF FetchNewsRaises(ud, w) THEN <<>>      \* except Exception: return []
    ELSE Take(FilterNews(RemoveDuplicates(AllNews(ud, w)), <<>>, <<>>), NewsCap)

\* no call of the news functions made yet
NoResult == [op |-> "none", raised |-> FALSE, value |-> <<>>, calls |-> <<>>]
NoUserData == [topics |-> <<>>, sources |-> {}, language |-> "ru"]
\* context.user_data without the key "last_news"; a list kept under it
NotCached == [cached |-> FALSE, items |-> <<>>]
Cached(items) == [cached |-> TRUE, items |-> items]

NoWorld == [rss |-> <<>>, api |-> Down, mediastack |-> Down]

NewsIdle ==
    /\ input_news = <<>>
    /\ input_keywords = <<>>
    /\ input_exclude = <<>>
    /\ user_data = NoUserData
    /\ world = NoWorld
    /\ returned = NoResult
    /\ last_news = NotCached

-----------------------------------------------------------------------------
(* Actions *)

\* a handler that does not reach update_user_data: the store as get_user_data
\* left it (saved when a profile was created), the registry as it was
Unchanged(ud, saved, ok) ==
    [users_data |-> ud, jobs |-> jobs, ok |-> ok, saved |-> saved,
     scheduled |-> FALSE, keys |-> {}]

Apply(r, op, u) ==
    /\ handler = NoCall          \* handlers run one at a time on the event loop
    /\ users_data' = r.users_data
    /\ jobs' = r.jobs
    /\ last' = [op |-> op, user |-> u, ok |-> r.ok,
                scheduled |-> r.scheduled, keys |-> r.keys]
    /\ data_file' = IF r.saved THEN r.users_data ELSE data_file
    /\ ret' = NoRet
    /\ UNCHANGED <<now, running, pc, queue, cur, news_vars, handler, threads>>

\* run(): start_scheduler, then polling begins
Run ==
    /\ ~running
    /\ running' = TRUE
    /\ pc' = "sleep"
    /\ last' = [op |-> "run"]
    /\ ret' = NoRet
    /\ UNCHANGED <<users_data, jobs, now, queue, cur, news_vars, data_file, handler, threads>>

\* /start (and every handler that only reads the profile)
StartCommand(u) ==
    /\ running
    /\ Apply(Unchanged(GetUserData(users_data, u), users_data[u] = NoProfile, TRUE),
             "start", u)

\* callback toggle_digest_<id>
ToggleDigest(u) ==
    /\ running
    /\ LET ud == GetUserData(users_data, u)
           flipped == [ud EXCEPT ![u].digest_enabled = ~ud[u].digest_enabled]
       IN  Apply(UpdateUserData(flipped, jobs, u,
                                [digest_enabled |-> flipped[u].digest_enabled], now),
                 "toggle", u)

\* /time <arg>
TimeCommand(u, t) ==
    /\ running
    /\ IF StrptimeAccepts(t)
         THEN Apply(UpdateUserData(users_data, jobs, u, [digest_time |-> t], now),
                    "time", u)
         ELSE Apply(Unchanged(users_data, FALSE, FALSE), "time", u)

\* /freq <arg>
FreqCommand(u, f) ==
    /\ running
    /\ IF f \in valid_frequencies
         THEN Apply(UpdateUserData(users_data, jobs, u,
                                   [digest_frequency |-> f], now), "freq", u)
         ELSE Apply(Unchanged(users_data, FALSE, FALSE), "freq", u)

\* DigestScheduler.get_next_digest_time(user_id)
GetNextDigestTime(u) ==
    /\ users_data' = GetUserData(users_data, u)
    /\ ret' = NextDigestTime(users_data'[u], now)
    /\ last' = [op |-> "next", user |-> u]
    /\ data_file' = IF users_data[u] = NoProfile THEN users_data' ELSE data_file
    /\ UNCHANGED <<jobs, now, running, pc, queue, cur, news_vars, handler, threads>>

\* _run_scheduler wakes up: run_pending collects and sorts the runnable jobs
TickStart ==
    /\ running /\ pc = "sleep"
    /\ jobs' = [i \in DOMAIN jobs |->
                  [jobs[i] EXCEPT !.busy = ShouldRun(jobs[i], now)]]
    /\ queue' = Runnable(jobs', now)
    /\ pc' = IF queue' = <<>> THEN "sleep" ELSE "pending"
    /\ last' = [op |-> "tick"]
    /\ ret' = NoRet
    /\ UNCHANGED <<users_data, now, running, cur, news_vars, data_file, handler, threads>>

Outcomes == {"items", "empty", "loop_error", "hang"}

\* run_pending runs the next job: _send_digest_job starts send_digest on the
\* scheduler thread, which reads the profile and waits for fetch_news
JobStart(o) ==
    /\ pc = "pending" /\ queue # <<>>
    /\ LET j == Head(queue)
           ud == IF o = "loop_error" THEN users_data ELSE GetUserData(users_data, j.user)
           enabled == ud[j.user] # NoProfile /\ ud[j.user].digest_enabled
       IN  /\ users_data' = ud
           /\ cur' = [user |-> j.user, start_day |-> j.start_day,
                      at |-> j.at, slot |-> j.next_run, enabled |-> enabled,
                      waited |-> 0,
                      outcome |-> IF o = "loop_error" \/ enabled THEN o ELSE "disabled"]
           /\ data_file' = IF ud = users_data THEN data_file ELSE ud
           /\ last' = [op |-> "dispatch", user |-> j.user]
    /\ queue' = Tail(queue)
    /\ pc' = "job"
    /\ ret' = NoRet
    /\ UNCHANGED <<jobs, now, running, news_vars, handler, threads>>

\* send_digest returns (or the loop raised): run_pending reschedules the job
JobFinish ==
    /\ pc = "job" /\ cur.outcome # "hang"
    /\ LET trace == IF cur.outcome = "loop_error" THEN <<>>
                    ELSE SendDigest(cur.enabled, cur.outcome)
           result == SendDigestJob(cur.outcome)
       IN  /\ IF result = "returned"
                THEN /\ jobs' = [i \in DOMAIN jobs |->
                                   IF Same(cur, jobs[i])
                                     THEN [jobs[i] EXCEPT
                                             !.next_run = ScheduleNextRun(now, cur.start_day,
                                                                          cur.at),
                                             !.busy = FALSE]
                                     ELSE jobs[i]]
                     /\ queue' = queue
                ELSE \* the exception leaves run_pending and its list is dropped
                     /\ jobs' = [i \in DOMAIN jobs |-> [jobs[i] EXCEPT !.busy = FALSE]]
                     /\ queue' = <<>>
           /\ pc' = IF queue' = <<>> THEN "sleep" ELSE "pending"
           /\ last' = [op |-> "finish", user |-> cur.user, start_day |-> cur.start_day,
                       live |-> \E i \in DOMAIN jobs : Same(cur, jobs[i]),
                       slot |-> cur.slot, trace |-> trace,
                       outcome |-> cur.outcome, result |-> result]
    /\ cur' = NoJob
    /\ ret' = NoRet
    /\ UNCHANGED <<users_data, now, running, news_vars, data_file, handler, threads>>

\* the next instant at which the clock is read
NextReading(n) ==
    CHOOSE t \in (n + 1)..(n + MinutesPerDay) :
        /\ t % MinutesPerHour = 0
        /\ TimeOfDay(t) \div MinutesPerHour \in ClockHours
        /\ \A s \in (n + 1)..(t - 1) :
              ~(s % MinutesPerHour = 0 /\ TimeOfDay(s) \div MinutesPerHour \in ClockHours)

\* Time passes.  The scheduler thread wakes every 60 seconds, so a runnable job
\* is picked up before the next reading unless the thread is inside a job.
AdvanceClock(limit) ==
    /\ DayOf(now) < limit
    /\ \/ ~running /\ cur' = cur
       \/ pc = "sleep" /\ Runnable(jobs, now) = <<>> /\ cur' = cur
       \/ pc = "job" /\ cur.waited < MaxWait
                     /\ cur' = [cur EXCEPT !.waited = cur.waited + 1]
    /\ now' = NextReading(now)
    /\ last' = [op |-> "clock"]
    /\ ret' = NoRet
    /\ UNCHANGED <<users_data, jobs, running, pc, queue, news_vars, data_file, handler, threads>>

\* news_filter.remove_duplicates(news_list)
CallRemoveDuplicates ==
    /\ returned' = [op |-> "remove_duplicates",
                  raised |-> RemoveDuplicatesRaises(input_news),
                  value |-> IF RemoveDuplicatesRaises(input_news) THEN <<>>
                            ELSE RemoveDuplicates(input_news),
                  calls |-> <<>>]
    /\ UNCHANGED <<sched_vars, input_news, input_keywords, input_exclude, user_data, world, last_news>>

\* news_filter.filter_news(news_list, keywords, exclude_keywords)
CallFilterNews ==
    /\ returned' = [op |-> "filter_news",
                  raised |-> FilterNewsRaises(input_news),
                  value |-> IF FilterNewsRaises(input_news) THEN <<>>
                            ELSE FilterNews(input_news, input_keywords, input_exclude),
                  calls |-> <<>>]
    /\ UNCHANGED <<sched_vars, input_news, input_keywords, input_exclude, user_data, world, last_news>>

\* await self.fetch_news(user_data)
CallFetchNews ==
    /\ returned' = [op |-> "fetch_news",
                  raised |-> FALSE,
                  value |-> FetchNews(user_data, world),
                  calls |-> FetchNewsCalls(user_data)]
    /\ UNCHANGED <<sched_vars, input_news, input_keywords, input_exclude, user_data, world, last_news>>


StartOfClock == ReplaceTime(0, 9, 0)          \* Monday 09:00

Init ==
    /\ users_data \in [Users -> {NoProfile} \cup PersistedProfiles]
    /\ jobs = <<>>
    /\ now = StartOfClock
    /\ running = FALSE
    /\ pc = "none"
    /\ queue = <<>>
    /\ cur = NoJob
    /\ ret = NoRet
    /\ last = [op |-> "init"]
    /\ data_file = users_data
    /\ handler = NoCall
    /\ threads = <<>>
    /\ NewsIdle

Next ==
    \/ Run
    \/ \E u \in Active : StartCommand(u)
    \/ \E u \in Active : ToggleDigest(u)
    \/ \E u \in Active, t \in TimeArgs : TimeCommand(u, t)
    \/ \E u \in Active, f \in FreqArgs : FreqCommand(u, f)
    \/ TickStart
    \/ \E o \in Outcomes : JobStart(o)
    \/ JobFinish
    \/ AdvanceClock(MaxDay)

Spec == Init /\ [][Next]_vars

(* Two users who only switch their digest on and off; several jobs per tick *)
NextTick ==
    \/ Run
    \/ \E u \in Users : ToggleDigest(u)
    \/ TickStart
    \/ \E o \in Outcomes : JobStart(o)
    \/ JobFinish
    \/ AdvanceClock(TickDays)

SpecTick == Init /\ [][NextTick]_vars

(* One user with a fixed time and frequency, over more than two weeks *)
CycleProfiles ==
    {Profile(e, t, f) : e \in BOOLEAN, t \in {T(9, 0, TRUE), T(10, 0, TRUE)},
                        f \in valid_frequencies}

InitCycle ==
    /\ \E p \in CycleProfiles :
          users_data = [u \in Users |-> IF u = 1 THEN p ELSE NoProfile]
    /\ jobs = <<>>
    /\ now = StartOfClock
    /\ running = FALSE
    /\ pc = "none"
    /\ queue = <<>>
    /\ cur = NoJob
    /\ ret = NoRet
    /\ last = [op |-> "init"]
    /\ data_file = users_data
    /\ handler = NoCall
    /\ threads = <<>>
    /\ NewsIdle

NextCycle ==
    \/ Run
    \/ ToggleDigest(1)
    \/ TickStart
    \/ \E o \in Outcomes : JobStart(o)
    \/ JobFinish
    \/ AdvanceClock(CycleDays)

SpecCycle == InitCycle /\ [][NextCycle]_vars

(* get_next_digest_time asked at every reading of one week *)
InitQuery ==
    /\ users_data \in [Users -> {NoProfile} \cup CycleProfiles]
    /\ jobs = <<>>
    /\ now = StartOfClock
    /\ running = FALSE
    /\ pc = "none"
    /\ queue = <<>>
    /\ cur = NoJob
    /\ ret = NoRet
    /\ last = [op |-> "init"]
    /\ data_file = users_data
    /\ handler = NoCall
    /\ threads = <<>>
    /\ NewsIdle

NextQuery ==
    \/ \E u \in Users : GetNextDigestTime(u)
    \/ AdvanceClock(QueryDays)

SpecQuery == InitQuery /\ [][NextQuery]_vars


(* One user and every handler, with a /time argument whose hour has one digit *)
ConfigTimeArgs == TimeArgs \cup {T(9, 0, FALSE)}

NextConfig ==
    \/ Run
    \/ \E u \in Active : StartCommand(u)
    \/ \E u \in Active : ToggleDigest(u)
    \/ \E u \in Active, t \in ConfigTimeArgs : TimeCommand(u, t)
    \/ \E u \in Active, f \in FreqArgs : FreqCommand(u, f)
    \/ TickStart
    \/ \E o \in Outcomes : JobStart(o)
    \/ JobFinish
    \/ AdvanceClock(ConfigDays)

SpecConfig == Init /\ [][NextConfig]_vars

-----------------------------------------------------------------------------
(* The news functions, applied to lists, input_keywords, profiles and backend    *)
(* answers drawn from small sets                                           *)

\* the bot as constructed, no handler and no scheduler step taken
SchedulerIdle ==
    /\ users_data = [u \in Users |-> NoProfile]
    /\ jobs = <<>>
    /\ now = StartOfClock
    /\ running = FALSE
    /\ pc = "none"
    /\ queue = <<>>
    /\ cur = NoJob
    /\ ret = NoRet
    /\ last = [op |-> "init"]
    /\ data_file = users_data
    /\ handler = NoCall
    /\ threads = <<>>

ItemPool ==
    {NewsItem(Str(<<"B", "i", "t", "c", "o", "i", "n", " ", "r", "a", "l", "l", "i", "e", "s">>), Str(<<"M", "a", "r", "k", "e", "t", "s", " ", "u", "p">>)),
     NewsItem(Str(<<"b", "i", "t", "c", "o", "i", "n", " ", "r", "a", "l", "l", "i", "e", "s">>), Str(<<>>)),
     NewsItem(Str(<<" ", "B", "I", "T", "C", "O", "I", "N", " ", "R", "a", "l", "l", "i", "e", "s", "\t">>), Absent),
     NewsItem(Str(<<"B", "i", "g", " ", "S", "A", "L", "E">>), Str(<<"S", "h", "o", "p">>)),
     NewsItem(Str(<<"R", "a", "t", "e", "s">>), Str(<<"N", "o", " ", "D", "i", "s", "c", "o", "u", "n", "t">>)),
     NewsItem(Str(<<"U+0420", "U+0435", "U+043A", "U+043B", "U+0430", "U+043C", "U+0430">>), Str(<<>>)),
     NewsItem(Str(<<"R", "a", "i", "n">>), Str(<<"C", "o", "l", "d">>))}

KeywordArgs == {<<>>, <<<<"B", "I", "T", "C", "O", "I", "N">>>>, <<<<"r", "a", "i", "n">>, <<"s", " ", "m">>>>, <<<<"S", "h", "o", "p">>, <<"c", "o", "l", "d">>>>}
ExcludeArgs == {<<>>, <<<<"R", "a", "l", "l", "i", "e", "s">>>>, <<<<"C", "O", "L", "D">>, <<"s", "h", "o", "p">>>>}

InitFilter ==
    /\ SchedulerIdle
    /\ input_news \in UNION {[1..n -> ItemPool] : n \in 0..MaxNews}
    /\ input_keywords \in KeywordArgs
    /\ input_exclude \in ExcludeArgs
    /\ user_data = NoUserData
    /\ world = NoWorld
    /\ returned = NoResult
    /\ last_news = NotCached

NextFilter ==
    \/ CallRemoveDuplicates
    \/ CallFilterNews

SpecFilter == InitFilter /\ [][NextFilter]_vars

Tag == <<"a", "b", "c", "d", "e", "f", "g", "h", "i", "j", "k", "l", "m", "n", "o", "p">>
Story(i) == <<"S", "t", "o", "r", "y", " ">> \o <<Tag[i]>>
StoryEntries(from, to) ==
    [i \in 1..(to - from + 1) |-> Entry(Str(Story(from + i - 1)), Absent)]
StoryArticles(from, to) ==
    [i \in 1..(to - from + 1) |-> NewsItem(Str(Story(from + i - 1)), Str(<<>>))]

Feed1 == {Down,
          Ok(<<Entry(Str(<<"B", "i", "t", "c", "o", "i", "n", " ", "r", "a", "l", "l", "i", "e", "s">>), Absent),
               Entry(Str(<<"b", "i", "t", "c", "o", "i", "n", " ", "r", "a", "l", "l", "i", "e", "s">>), Str(<<"M", "a", "r", "k", "e", "t", "s", " ", "u", "p">>))>>),
          Ok(StoryEntries(1, FeedPage))}
Feed2 == {Down, Ok(StoryEntries(FeedPage + 1, 2 * FeedPage))}
Feed3 == {Down,
          Ok(<<Entry(Str(<<"R", "a", "i", "n">>), Str(<<"C", "o", "l", "d">>)), Entry(Str(<<"B", "i", "g", " ", "S", "A", "L", "E">>), Absent)>>)}
ApiAnswers ==
    {Down,
     Ok(StoryArticles(2 * FeedPage + 1, 2 * FeedPage + ApiPage)),
     Ok(<<NewsItem(Str(<<"E", "t", "h", " ", "f", "a", "l", "l", "s">>), None)>>),
     Ok(<<NewsItem(Str(<<" ", "B", "I", "T", "C", "O", "I", "N", " ", "R", "A", "L", "L", "I", "E", "S", " ">>), Str(<<"U", "p">>)),
          NewsItem(Str(<<"R", "a", "i", "n">>), Str(<<"W", "e", "t">>))>>)}
MediastackAnswers ==
    {Down,
     Ok(<<NewsItem(Absent, Str(<<"S", "t", "o", "r", "y", " ", "o", "f", " ", "t", "h", "e", " ", "d", "a", "y">>)),
          NewsItem(Str(Story(1)), Absent)>>)}

TopicArgs == {<<>>, <<<<"b", "i", "t", "c", "o", "i", "n">>>>, <<<<"S", "T", "O", "R", "Y">>, <<"r", "a", "i", "n">>>>}
SourceArgs == SUBSET {"rss", "api"}
LanguageArgs == {"ru", "en"}

InitFetch ==
    /\ SchedulerIdle
    /\ input_news = <<>>
    /\ input_keywords = <<>>
    /\ input_exclude = <<>>
    /\ user_data \in [topics : TopicArgs, sources : SourceArgs, language : LanguageArgs]
    /\ world \in [rss : Feed1 \X Feed2 \X Feed3, api : ApiAnswers,
                  mediastack : MediastackAnswers]
    /\ returned = NoResult
    /\ last_news = NotCached

NextFetch == CallFetchNews

SpecFetch == InitFetch /\ [][NextFetch]_vars


-----------------------------------------------------------------------------
(* Properties *)

Enabled(u) == users_data[u] # NoProfile /\ users_data[u].digest_enabled
SlotOf(u) == users_data[u].digest_time.h * MinutesPerHour + users_data[u].digest_time.m
Updated(u) == last.op \in {"toggle", "time", "freq"} /\ last.user = u /\ last.ok
Asked(u, f) ==
    last.op = "next" /\ last.user = u /\ Enabled(u) /\ users_data[u].digest_frequency = f

\* the start days a frequency stands for
DaysFor(f) ==
    IF f = "daily" THEN {NoDay} ELSE IF f = "weekly" THEN {Monday} ELSE Monday..Friday

\* the first time not before n that has time of day `at` and falls on one of `days`
FirstSlot(n, at, days) ==
    CHOOSE t \in n..(n + Days(DaysPerWeek)) :
        /\ TimeOfDay(t) = at /\ Weekday(t) \in days
        /\ \A s \in n..(t - 1) : ~(TimeOfDay(s) = at /\ Weekday(s) \in days)

RetTime == Days(ret.date) + ret.hour * MinutesPerHour + ret.minute

\* C1: after an update that leaves digest_enabled false, the registry holds no
\* job tagged for that user.
C1_DisableRemovesJobs ==
    \A u \in Users : (Updated(u) /\ ~Enabled(u)) => UserJobs(jobs, u) = <<>>

\* C2: after schedule_user_digest for an enabled profile with a valid time and
\* frequency, the user's jobs are exactly the fresh ones of this call: one
\* (daily, weekly) or five (weekdays), one per start day of the frequency, at
\* the configured time, not yet run and due strictly in the future.
C2_OnlyNewJobs ==
    \A u \in Users :
        (/\ Updated(u) /\ Enabled(u)
         /\ AtAccepts(users_data[u].digest_time)
         /\ users_data[u].digest_frequency \in valid_frequencies)
        => LET uj == UserJobs(jobs, u)
               days == DaysFor(users_data[u].digest_frequency)
           IN  /\ Len(uj) = Cardinality(days)
               /\ {uj[i].start_day : i \in DOMAIN uj} = days
               /\ \A i \in DOMAIN uj :
                     /\ uj[i].at = SlotOf(u)
                     /\ ~uj[i].busy
                     /\ uj[i].next_run > now
                     /\ uj[i].next_run <= now + Period(uj[i].start_day)

\* a user with stale jobs of another time gets five weekday jobs by /freq
C2_Witness ==
    /\ last.op = "freq" /\ last.user = 1 /\ last.ok /\ Enabled(1)
    /\ users_data[1].digest_frequency = "weekdays"
    /\ Len(UserJobs(jobs, 1)) = 5
    /\ pc = "job" /\ cur.user = 1 /\ cur.at # SlotOf(1)

\* C3: a fire for an enabled user whose aggregation returns items runs
\* aggregation, formatting and delivery, in this order, once.
C3_PipelineRunsOnce ==
    (last.op = "finish" /\ last.outcome = "items")
    => last.trace = <<"fetch_news", "format_digest", "deliver">>

\* C4: when a job has run, its recomputed next run is strictly after the time
\* of the run and strictly after the slot that fired; the slot that fired was
\* not in the future.
C4_NextFireIncreases ==
    [][(pc = "job" /\ pc' # "job")
       => /\ cur.slot <= now
          /\ \A i \in DOMAIN jobs :
                Same(cur, jobs[i]) =>
                    /\ jobs'[i].next_run > now
                    /\ jobs'[i].next_run > jobs[i].next_run
                    /\ jobs'[i].next_run > cur.slot]_vars

\* the Monday job fires for the third week running and is moved on
C4_Witness ==
    /\ last.op = "finish" /\ last.live /\ last.start_day = Monday
    /\ last.slot >= Days(2 * DaysPerWeek)
    /\ \E i \in DOMAIN jobs :
          jobs[i].start_day = Monday /\ jobs[i].next_run > last.slot

\* C5: for weekdays the answer is the first Monday-to-Friday occurrence of the
\* configured time that is not before now.
C5_WeekdaysNext ==
    \A u \in Users :
        Asked(u, "weekdays") =>
            /\ ret.kind = "time"
            /\ RetTime = FirstSlot(now, SlotOf(u), Monday..Friday)

\* C6: for weekly the answer is the first Monday at the configured time that
\* is not before now.
C6_WeeklyNext ==
    \A u \in Users :
        Asked(u, "weekly") =>
            /\ ret.kind = "time"
            /\ RetTime = FirstSlot(now, SlotOf(u), {Monday})

\* C7: for daily the answer is the configured time of day, strictly after now
\* and at most one day ahead: today if still ahead, else tomorrow.
C7_DailyNext ==
    \A u \in Users :
        Asked(u, "daily") =>
            /\ ret.kind = "time"
            /\ ret.hour = users_data[u].digest_time.h
            /\ ret.minute = users_data[u].digest_time.m
            /\ RetTime > now
            /\ RetTime <= now + Days(1)

\* asked exactly at the slot, the answer is tomorrow
C7_Witness ==
    \E u \in Users :
        /\ Asked(u, "daily") /\ ret.kind = "time"
        /\ TimeOfDay(now) = SlotOf(u)
        /\ RetTime = now + Days(1)

\* C8: after a start with a persisted enabled profile the user's job is in
\* the registry.
C8_JobsAfterStart ==
    last.op = "run" => \A u \in Users : Enabled(u) => UserJobs(jobs, u) # <<>>

\* the pipeline of the executing job fails: the event loop raises, or
\* send_digest runs into its own error
Failed(j) ==
    \/ j.outcome = "loop_error"
    \/ \E i \in DOMAIN SendDigest(j.enabled, j.outcome) :
          SendDigest(j.enabled, j.outcome)[i] = "error"

\* C9: when the pipeline of a job fails, the jobs still to run in this tick
\* stay in the run list, the loop goes on, and the failing job is moved to a
\* slot after the one that fired.
C9_FailureIsolated ==
    [][(pc = "job" /\ pc' # "job" /\ Failed(cur))
       => /\ queue' = queue
          /\ running'
          /\ pc' = IF queue = <<>> THEN "sleep" ELSE "pending"
          /\ \A i \in DOMAIN jobs :
                Same(cur, jobs[i]) =>
                    /\ jobs'[i].next_run > cur.slot
                    /\ ~ShouldRun(jobs'[i], now)]_vars

\* the event loop failed for one user while another user's job waits in the tick
C9_Witness ==
    /\ last.op = "finish" /\ last.outcome = "loop_error" /\ last.live
    /\ pc = "pending" /\ queue # <<>>
    /\ Head(queue).user # last.user

\* C10: while one user's send_digest is executing, a due job of another user
\* can be dispatched.
C10_SlowJobDoesNotBlock ==
    (pc = "job" /\ \E i \in DOMAIN queue : queue[i].user # cur.user)
    => ENABLED (\E o \in Outcomes : JobStart(o))

\* C11: when a job finishes for a user whose digest was switched off while the
\* job was executing, the job is not put back: the user has no job in the
\* registry afterwards.
C11_NoRearmAfterDisable ==
    (last.op = "finish" /\ last.outcome # "disabled" /\ ~Enabled(last.user))
    => UserJobs(jobs, last.user) = <<>>

\* C12: a /time or /freq update whose value cannot be scheduled (a time the
\* job registry does not take, a frequency outside daily, weekly, weekdays)
\* leaves the stored profiles and the registered jobs exactly as they were.
C12_InvalidUpdateRejected ==
    [][/\ \A u \in Active, t \in ConfigTimeArgs :
             (~AtAccepts(t) /\ users_data[u] # NoProfile /\ TimeCommand(u, t))
             => (users_data' = users_data /\ jobs' = jobs)
       /\ \A u \in Active, f \in FreqArgs :
             (f \notin valid_frequencies /\ FreqCommand(u, f))
             => (users_data' = users_data /\ jobs' = jobs)]_vars

Fetched == returned.op = "fetch_news"

\* what fetch_news has before it cuts the list, when nothing raised
Uncut == FilterNews(RemoveDuplicates(AllNews(user_data, world)), <<>>, <<>>)

\* C13: fetch_news never returns more than 10 items.
C13_AtMostTen == Fetched => Len(returned.value) <= 10

\* more than ten different items passed the filter and ten were returned
C13_Witness ==
    /\ Fetched /\ Len(returned.value) = 10
    /\ ~FetchNewsRaises(user_data, world)
    /\ Len(Uncut) > 10

\* the word occurs in the item's title or in its description, whatever the case
Mentions(news, word) ==
    \/ In(Lower(word), Lower(news.title.s))
    \/ In(Lower(word), Lower(Get(news.description, <<>>).s))

\* C14: for a profile with topics, every item fetch_news returns mentions at
\* least one of the topics in its title or description.
C14_OnlyTopicItems ==
    (Fetched /\ user_data.topics # <<>>)
    => \A i \in DOMAIN returned.value :
          \E t \in DOMAIN user_data.topics :
              Mentions(returned.value[i], user_data.topics[t])

Called(adapter) == \E i \in DOMAIN returned.calls : returned.calls[i] = adapter

\* C15: fetch_news calls the RSS adapter only for a profile with 'rss' among
\* its sources, and the news-API adapter only for one with 'api'.
C15_OnlyEnabledSources ==
    Fetched =>
        /\ Called("fetch_rss_news") => "rss" \in user_data.sources
        /\ Called("fetch_api_news") => "api" \in user_data.sources

\* trimmed and lower-cased
Normalized(s) == Strip(Lower(s))

\* the lower-cased text of a title or description, empty when there is none
Folded(v) == IF IsStr(Get(v, <<>>)) THEN Lower(Get(v, <<>>).s) ELSE <<>>

Promotional(news) ==
    \E i \in DOMAIN keywords_blacklist :
        \/ In(keywords_blacklist[i], Folded(news.title))
        \/ In(keywords_blacklist[i], Folded(news.description))

\* everything the adapter calls of this fetch_news call delivered
Delivered ==
    (IF "rss" \in user_data.sources
       THEN FetchRssNews(world, user_data.language, SourceLimit) ELSE <<>>)
    \o (IF "api" \in user_data.sources
          THEN FetchApiNews(world) \o FetchMediastackNews(world) ELSE <<>>)
    \o (IF user_data.topics # <<>>
          THEN FetchRssNews(world, user_data.language, TopicsLimit) \o FetchApiNews(world)
          ELSE <<>>)

\* an item that no reading of the filter drops: it has a title, is not
\* promotional and, for a profile with topics, mentions one of them
Survives(news) ==
    /\ IsStr(news.title)
    /\ ~Promotional(news)
    /\ \/ user_data.topics = <<>>
       \/ \E t \in DOMAIN user_data.topics :
             \/ In(Lower(user_data.topics[t]), Folded(news.title))
             \/ In(Lower(user_data.topics[t]), Folded(news.description))

EveryAdapterFailed ==
    /\ Called("fetch_rss_news") => \A i \in DOMAIN world.rss : ~world.rss[i].ok
    /\ Called("fetch_api_news") => ~world.api.ok
    /\ Called("fetch_mediastack_news") => ~world.mediastack.ok

\* C16: fetch_news returns the surviving items of the adapters that answered:
\* the result is empty only when every adapter failed or no delivered item
\* survives, and below the cap every surviving item is in it, up to duplicates.
C16_PartialFailure ==
    Fetched =>
        LET surviving == {i \in DOMAIN Delivered : Survives(Delivered[i])}
        IN  /\ returned.value = <<>> => (EveryAdapterFailed \/ surviving = {})
            /\ Len(returned.value) < 10 =>
                  \A i \in surviving :
                      \E k \in DOMAIN returned.value :
                          Normalized(returned.value[k].title.s)
                              = Normalized(Delivered[i].title.s)

Titles(list) == [i \in DOMAIN list |-> list[i].title.s]

\* topics [bitcoin], sources {rss}, and the only items there are: two RSS
\* items titled 'Bitcoin rallies' and 'bitcoin rallies'
BitcoinExample ==
    /\ user_data.topics = <<<<"b", "i", "t", "c", "o", "i", "n">>>>
    /\ user_data.sources = {"rss"}
    /\ Titles(FetchRssNews(world, user_data.language, SourceLimit))
          = <<<<"B", "i", "t", "c", "o", "i", "n", " ", "r", "a", "l", "l", "i", "e", "s">>, <<"b", "i", "t", "c", "o", "i", "n", " ", "r", "a", "l", "l", "i", "e", "s">>>>
    /\ Titles(FetchRssNews(world, user_data.language, TopicsLimit))
          = <<<<"B", "i", "t", "c", "o", "i", "n", " ", "r", "a", "l", "l", "i", "e", "s">>, <<"b", "i", "t", "c", "o", "i", "n", " ", "r", "a", "l", "l", "i", "e", "s">>>>
    /\ FetchApiNews(world) = <<>>

Deduped == returned.op = "remove_duplicates"

\* no earlier item of the list has the normalized title of item i
FirstOfTitle(list, i) ==
    \A j \in 1..(i - 1) : Normalized(list[j].title.s) # Normalized(list[i].title.s)

RECURSIVE FirstOnes(_, _)
FirstOnes(list, i) ==
    IF i > Len(list) THEN <<>>
    ELSE (IF FirstOfTitle(list, i) THEN <<list[i]>> ELSE <<>>) \o FirstOnes(list, i + 1)

\* C18: remove_duplicates returns, in input order, exactly the first item of
\* each normalized title: the output is no longer than the input, has no two
\* items of the same normalized title, and an item is dropped only when an
\* earlier item has its normalized title.
C18_FirstOccurrences ==
    Deduped =>
        /\ returned.value = FirstOnes(input_news, 1)
        /\ Len(returned.value) <= Len(input_news)
        /\ \A i, j \in DOMAIN returned.value :
              i # j => Normalized(returned.value[i].title.s)
                          # Normalized(returned.value[j].title.s)

\* the third item repeats the first in another case and without its blanks;
\* the first is the one kept
C18_Witness ==
    /\ Deduped /\ Len(input_news) = 3 /\ Len(returned.value) = 2
    /\ input_news[1].title.s # input_news[3].title.s
    /\ Normalized(input_news[1].title.s) = Normalized(input_news[3].title.s)
    /\ input_news[1].title.s # Strip(input_news[1].title.s)
    /\ returned.value = <<input_news[1], input_news[2]>>

Filtered == returned.op = "filter_news"

\* title plus description, lower-cased
FoldedText(news) == Folded(news.title) \o <<" ">> \o Folded(news.description)

\* the word occurs in the item's text, whatever the case
Has(news, word) == In(Lower(word), FoldedText(news))
HasAny(news, words) == \E i \in DOMAIN words : Has(news, words[i])

\* C19: no item whose lower-cased title or description contains a blacklist
\* term is in the output of filter_news, whatever the include and exclude
\* keywords are.
C19_NoPromotional ==
    Filtered => \A i \in DOMAIN returned.value : ~Promotional(returned.value[i])

\* an item with a blacklist term written in capitals matches an include
\* keyword and is dropped all the same, while another item is kept
C19_Witness ==
    /\ Filtered /\ returned.value # <<>>
    /\ \E i \in DOMAIN input_news :
          /\ Promotional(input_news[i])
          /\ ~(\E b \in DOMAIN keywords_blacklist :
                  In(keywords_blacklist[b], input_news[i].title.s))
          /\ HasAny(input_news[i], input_keywords)
          /\ \A k \in DOMAIN returned.value : returned.value[k] # input_news[i]

\* C20: filter_news returns, in input order, exactly the items with no
\* blacklist term, no exclude keyword and, when include keywords are given,
\* at least one include keyword, matched without regard to case in title plus
\* description; without include keywords every item not excluded is kept.
C20_FilterExact ==
    Filtered =>
        LET Wanted(news) ==
                /\ ~Promotional(news)
                /\ ~HasAny(news, input_exclude)
                /\ input_keywords # <<>> => HasAny(news, input_keywords)
        IN  returned.value = SelectSeq(input_news, Wanted)

\* an item with an include keyword and an exclude keyword is dropped, and an
\* item is kept for a keyword that lies across title and description
C20_Witness ==
    /\ Filtered /\ Len(input_news) = 3
    /\ \E i \in DOMAIN input_news :
          /\ ~Promotional(input_news[i])
          /\ HasAny(input_news[i], input_keywords)
          /\ HasAny(input_news[i], input_exclude)
          /\ \A k \in DOMAIN returned.value : returned.value[k] # input_news[i]
    /\ \E k \in DOMAIN returned.value :
          /\ HasAny(returned.value[k], input_keywords)
          /\ ~(\E w \in DOMAIN input_keywords :
                  \/ In(Lower(input_keywords[w]), Folded(returned.value[k].title))
                  \/ In(Lower(input_keywords[w]), Folded(returned.value[k].description)))

------------------------------------------------------------------------------
(* Topic, source and language handlers of bot.py. A command's arguments,  *)
(* context.args, are the words of the message after the command name.     *)

Digit == <<"0", "1", "2", "3", "4", "5", "6", "7", "8", "9">>

\* int(s) does not raise ValueError: decimal digits after an optional sign
IntAccepts(s) ==
    LET digits == IF s # <<>> /\ s[1] \in {"+", "-"} THEN Tail(s) ELSE s
    IN  digits # <<>> /\ \A i \in 1..Len(digits) : \E d \in DOMAIN Digit : Digit[d] = digits[i]

DigitValue(c) == (CHOOSE d \in DOMAIN Digit : Digit[d] = c) - 1

\* int(s)
RECURSIVE ParseInt(_)
ParseInt(s) == IF s = <<>> THEN 0
          ELSE IF s[1] = "-" THEN 0 - ParseInt(Tail(s))
          ELSE IF s[1] = "+" THEN ParseInt(Tail(s))
          ELSE 10 * ParseInt(SubSeq(s, 1, Len(s) - 1)) + DigitValue(s[Len(s)])

\* " ".join(words)
RECURSIVE Join(_)
Join(words) ==
    IF words = <<>> THEN <<>>
    ELSE IF Len(words) = 1 THEN words[1]
    ELSE words[1] \o <<" ">> \o Join(Tail(words))

\* str.split(): the runs of non-whitespace characters
RECURSIVE Split(_)
Split(s) ==
    LET inner == {i \in 1..Len(s) : s[i] \notin Whitespace}
    IN  IF inner = {} THEN <<>>
        ELSE LET first == CHOOSE i \in inner : \A j \in inner : i <= j
                 gaps == {i \in first..Len(s) : s[i] \in Whitespace}
                 stop == IF gaps = {} THEN Len(s) + 1
                         ELSE CHOOSE i \in gaps : \A j \in gaps : i <= j
             IN  <<SubSeq(s, first, stop - 1)>> \o Split(SubSeq(s, stop, Len(s)))

\* normalize_name of topic_command
NormalizeName(name) == Strip(Join(Split(name)))

\* list.pop(i), the list that is left (i counted from 1)
Pop(list, i) == SubSeq(list, 1, i - 1) \o SubSeq(list, i + 1, Len(list))

\* any(t.lower() == name.lower() for t in topics)
AnyTopicEquals(topics, name) == \E i \in DOMAIN topics : Lower(topics[i]) = Lower(name)

\* name in topics, for a list of str
InList(name, topics) == \E i \in DOMAIN topics : topics[i] = name

ListWords == { <<"l", "i", "s", "t">>, <<"l", "s">>, <<"s", "h", "o", "w">> }
RemoveWords == { <<"r", "e", "m", "o", "v", "e">>, <<"r", "m">>, <<"d", "e", "l">>, <<"d", "e", "l", "e", "t", "e">> }
RenameWords == { <<"r", "e", "n", "a", "m", "e">>, <<"m", "v">> }
AddWord == <<"a", "d", "d">>
TopicLimit == 100

\* the handler changed the list in place, then update_user_data(user_id, {"topics": topics})
SetTopics(ud, u, topics) ==
    UpdateUserData([ud EXCEPT ![u].topics = topics], jobs, u, [topics |-> topics], now)

\* /topic remove <number|name>
TopicRemove(ud, created, u, target) ==
    LET topics == ud[u].topics
        norm == Lower(Strip(target))
        named == {i \in DOMAIN topics : Lower(topics[i]) = norm}
    IN  IF IntAccepts(target)
          THEN IF ParseInt(target) - 1 >= 0 /\ ParseInt(target) - 1 < Len(topics)
                 THEN SetTopics(ud, u, Pop(topics, ParseInt(target)))
                 ELSE Unchanged(ud, created, FALSE)
        ELSE IF named # {}
          THEN SetTopics(ud, u, Pop(topics, CHOOSE i \in named : \A j \in named : i <= j))
        ELSE Unchanged(ud, created, FALSE)

\* /topic rename <number> <new name>
TopicRename(ud, created, u, args) ==
    LET topics == ud[u].topics
        idx == ParseInt(args[2]) - 1
        new_name == NormalizeName(Join(SubSeq(args, 3, Len(args))))
    IN  IF Len(args) < 3 \/ ~IntAccepts(args[2]) THEN Unchanged(ud, created, FALSE)
        ELSE IF ~(0 <= idx /\ idx < Len(topics)) THEN Unchanged(ud, created, FALSE)
        ELSE IF new_name = <<>> THEN Unchanged(ud, created, FALSE)
        ELSE IF AnyTopicEquals(topics, new_name) THEN Unchanged(ud, created, FALSE)
        ELSE SetTopics(ud, u, [topics EXCEPT ![idx + 1] = new_name])

\* /topic <name>, /topic add <name>
TopicAdd(ud, created, u, name) ==
    LET topics == ud[u].topics
    IN  IF name = <<>> THEN Unchanged(ud, created, FALSE)
        ELSE IF Len(topics) >= TopicLimit THEN Unchanged(ud, created, FALSE)
        ELSE IF AnyTopicEquals(topics, name) THEN Unchanged(ud, created, FALSE)
        ELSE SetTopics(ud, u, Append(topics, name))

\* topic_command
TopicResult(u, args) ==
    LET ud == GetUserData(users_data, u)
        created == users_data[u] = NoProfile
        sub == Lower(args[1])
    IN  IF args = <<>> THEN Unchanged(ud, created, FALSE)
        ELSE IF sub \in ListWords THEN Unchanged(ud, created, TRUE)
        ELSE IF sub \in RemoveWords
          THEN IF Len(args) < 2 THEN Unchanged(ud, created, FALSE)
               ELSE TopicRemove(ud, created, u, Join(Tail(args)))
        ELSE IF sub \in RenameWords THEN TopicRename(ud, created, u, args)
        ELSE IF sub = AddWord THEN TopicAdd(ud, created, u, NormalizeName(Join(Tail(args))))
        ELSE TopicAdd(ud, created, u, NormalizeName(Join(args)))

\* /remove <number>
RemoveResult(u, args) ==
    LET ud == GetUserData(users_data, u)
        created == users_data[u] = NoProfile
        topics == ud[u].topics
        topic_index == ParseInt(args[1]) - 1
    IN  IF args = <<>> \/ ~IntAccepts(args[1]) THEN Unchanged(ud, created, FALSE)
        ELSE IF 0 <= topic_index /\ topic_index < Len(topics)
          THEN SetTopics(ud, u, Pop(topics, topic_index + 1))
        ELSE Unchanged(ud, created, FALSE)

\* /rename <number> <new name>
RenameResult(u, args) ==
    LET ud == GetUserData(users_data, u)
        created == users_data[u] = NoProfile
        topics == ud[u].topics
        topic_index == ParseInt(args[1]) - 1
        new_name == Join(Tail(args))
    IN  IF Len(args) < 2 \/ ~IntAccepts(args[1]) THEN Unchanged(ud, created, FALSE)
        ELSE IF 0 <= topic_index /\ topic_index < Len(topics)
          THEN SetTopics(ud, u, [topics EXCEPT ![topic_index + 1] = new_name])
        ELSE Unchanged(ud, created, FALSE)

\* handle_message: a text message that is not a command
MessageResult(u, text) ==
    LET ud == GetUserData(users_data, u)
        created == users_data[u] = NoProfile
        topics == ud[u].topics
        message_text == Strip(text)
    IN  IF ~InList(message_text, topics)
          THEN SetTopics(ud, u, Append(topics, message_text))
          ELSE Unchanged(ud, created, FALSE)

\* list.remove(x): without the first x
ListRemove(list, x) ==
    Pop(list, CHOOSE i \in DOMAIN list : list[i] = x /\ \A j \in DOMAIN list : list[j] = x => i <= j)

\* button toggle_source_<source>
ToggleSourceResult(u, source) ==
    LET ud == GetUserData(users_data, u)
        sources == IF InList(source, ud[u].sources)
                     THEN ListRemove(ud[u].sources, source)
                     ELSE Append(ud[u].sources, source)
    IN  UpdateUserData([ud EXCEPT ![u].sources = sources], jobs, u,
                       [sources |-> sources], now)

\* button set_lang_<lang>
SetLangResult(u, lang) == UpdateUserData(users_data, jobs, u, [language |-> lang], now)

TopicCommand(u, args) ==
    /\ running
    /\ Len(TopicResult(u, args).users_data[u].topics) <= MaxTopics
    /\ Apply(TopicResult(u, args), "topic", u)

RemoveCommand(u, args) ==
    /\ running
    /\ Apply(RemoveResult(u, args), "remove", u)

RenameCommand(u, args) ==
    /\ running
    /\ Apply(RenameResult(u, args), "rename", u)

HandleMessage(u, text) ==
    /\ running
    /\ Len(MessageResult(u, text).users_data[u].topics) <= MaxTopics
    /\ Apply(MessageResult(u, text), "message", u)

ToggleSource(u, source) ==
    /\ running
    /\ Apply(ToggleSourceResult(u, source), "toggle_source", u)

SetLang(u, lang) ==
    /\ running
    /\ Apply(SetLangResult(u, lang), "set_lang", u)

\* get_user_data called on its own: the store, the file and the dict it returns
CallGetUserData(u) ==
    /\ running
    /\ users_data' = GetUserData(users_data, u)
    /\ data_file' = IF users_data[u] = NoProfile THEN users_data' ELSE data_file
    /\ last' = [op |-> "get", user |-> u, value |-> users_data'[u],
                created |-> users_data[u] = NoProfile]
    /\ ret' = NoRet
    /\ UNCHANGED <<jobs, now, running, pc, queue, cur, news_vars, handler, threads>>

(* The profile store under every handler that writes it, the clock at rest *)

StoreProfiles == {Profile(TRUE, T(10, 0, TRUE), "weekdays")}

TopicCommandArgs ==
    {<<>>, <<<<"L", "I", "S", "T">>>>, <<<<"B", "i", "t", "c", "o", "i", "n">>>>, <<<<"a", "d", "d">>, <<"b", "i", "t", "c", "o", "i", "n">>>>, <<<<"a", "d", "d">>, <<"E", "t", "h", "e", "r">>>>,
     <<<<"R", "e", "m", "o", "v", "e">>, <<"E", "T", "H", "E", "R">>>>, <<<<"r", "m">>, <<"1">>>>, <<<<"r", "e", "n", "a", "m", "e">>, <<"1">>, <<"b", "i", "t", "c", "o", "i", "n">>>>,
     <<<<"m", "v">>, <<"2">>, <<"D", "o", "g", "e">>>>}
RemoveArgs == {<<>>, <<<<"1">>>>, <<<<"9">>>>, <<<<"x">>>>}
RenameArgs == {<<<<"1">>>>, <<<<"1">>, <<"b", "i", "t", "c", "o", "i", "n">>>>, <<<<"2">>, <<"E", "t", "h", "e", "r">>>>, <<<<"x">>, <<"E", "t", "h", "e", "r">>>>}
MessageTexts == { <<"B", "i", "t", "c", "o", "i", "n">>, <<" ", "b", "i", "t", "c", "o", "i", "n", " ">>, <<"E", "t", "h", "e", "r">> }
SourceButtons == {"api"}
LangButtons == {"en"}
StoreTimeArgs == {T(10, 0, TRUE), T(25, 0, TRUE)}

InitStore ==
    /\ users_data \in [Users -> {NoProfile} \cup StoreProfiles]
    /\ jobs = <<>>
    /\ now = StartOfClock
    /\ running = FALSE
    /\ pc = "none"
    /\ queue = <<>>
    /\ cur = NoJob
    /\ ret = NoRet
    /\ last = [op |-> "init"]
    /\ data_file = users_data
    /\ handler = NoCall
    /\ threads = <<>>
    /\ NewsIdle

NextStore ==
    \/ Run
    \/ \E u \in Active : CallGetUserData(u)
    \/ \E u \in Active : ToggleDigest(u)
    \/ \E u \in Active, t \in StoreTimeArgs : TimeCommand(u, t)
    \/ \E u \in Active, args \in TopicCommandArgs : TopicCommand(u, args)
    \/ \E u \in Active, args \in RemoveArgs : RemoveCommand(u, args)
    \/ \E u \in Active, args \in RenameArgs : RenameCommand(u, args)
    \/ \E u \in Active, text \in MessageTexts : HandleMessage(u, text)
    \/ \E u \in Active, source \in SourceButtons : ToggleSource(u, source)
    \/ \E u \in Active, lang \in LangButtons : SetLang(u, lang)

SpecStore == InitStore /\ [][NextStore]_vars

------------------------------------------------------------------------------
(* Properties of the profile store *)

\* the default profile as the specification words it
IsDefault(p) ==
    /\ p # NoProfile
    /\ p.digest_enabled = FALSE
    /\ p.digest_time.h = 9 /\ p.digest_time.m = 0 /\ p.digest_time.pad
    /\ p.digest_frequency = "daily"
    /\ p.sources = <<"rss">>
    /\ p.topics = <<>>

Others(u) == Users \ {u}

\* C21: get_user_data for a user not yet in the store creates the default
\* profile (digest disabled, 09:00, daily, sources [rss], no topics), writes it
\* to the data file and returns it; for a known user it returns the stored
\* profile with every field as it was; in both cases the other users' profiles
\* and the job registry are unchanged.
C21_GetUserData ==
    [][last'.op = "get" =>
         LET u == last'.user
         IN  /\ users_data[u] = NoProfile =>
                    /\ IsDefault(users_data'[u])
                    /\ data_file'[u] = users_data'[u]
             /\ users_data[u] # NoProfile => users_data'[u] = users_data[u]
             /\ last'.value = users_data'[u]
             /\ \A v \in Others(u) : users_data'[v] = users_data[v]
             /\ jobs' = jobs]_vars

\* a first access, beside a user who has a profile
C21_Witness ==
    /\ last.op = "get" /\ last.created
    /\ IsDefault(users_data[last.user])
    /\ \E v \in Others(last.user) : users_data[v] # NoProfile

\* the handlers that reach update_user_data with the profile in the store
Merged ==
    /\ last.op \in {"toggle", "time", "freq", "topic", "remove", "rename", "message",
                    "toggle_source", "set_lang"}
    /\ last.ok /\ last.keys # {}

\* the profile of a first access
Fresh ==
    [digest_enabled |-> FALSE, digest_time |-> [h |-> 9, m |-> 0, pad |-> TRUE],
     digest_frequency |-> "daily", topics |-> <<>>, sources |-> <<"rss">>,
     language |-> "ru"]

\* the profile update_user_data finds: handlers that read it first create it
Before(u) == IF users_data[u] = NoProfile THEN Fresh ELSE users_data[u]

DigestKeys == {"digest_enabled", "digest_time", "digest_frequency"}

\* C22: update_user_data changes only the profile fields named in the update
\* and reschedules the user's digest exactly when digest_enabled, digest_time
\* or digest_frequency is among the keys; an update of any other field leaves
\* the job registry as it was.
C22_UpdateFrame ==
    [][Merged' =>
         LET u == last'.user
             keys == last'.keys
         IN  /\ \A k \in DOMAIN users_data'[u] \ keys : users_data'[u][k] = Before(u)[k]
             /\ \A v \in Others(u) : users_data'[v] = users_data[v]
             /\ last'.scheduled <=> keys \cap DigestKeys # {}
             /\ keys \cap DigestKeys = {} => jobs' = jobs]_vars

\* a topic update beside a registry that holds jobs
C22_Witness ==
    /\ Merged /\ last.keys = {"topics"} /\ ~last.scheduled
    /\ users_data[last.user].topics # <<>>
    /\ jobs # <<>>

\* C30: in every reachable state of the store no two topics of a user are
\* equal when compared without regard to case, whichever handler changed the
\* list (/topic add, /topic rename, /rename, a plain text message).
C30_TopicsDistinct ==
    \A u \in Users :
        users_data[u] # NoProfile =>
            \A i, j \in DOMAIN users_data[u].topics :
                i # j => Lower(users_data[u].topics[i]) # Lower(users_data[u].topics[j])

------------------------------------------------------------------------------
(* The source adapters of NewsFetcher with their failure modes.  A response *)
(* names the statement that raises ("none": no statement does):            *)
(*   "network"     requests.get raises                                     *)
(*   "status"      raise_for_status raises on a non-2xx status             *)
(*   "rate_limit"  raise_for_status raises on status 429                   *)
(*   "body"        ET.fromstring or response.json raises                   *)
(*   "payload"     the parsed JSON is not an object holding a list         *)
(* A block of code ends with the list built so far, returned or raised.    *)

Faults == {"network", "status", "rate_limit", "body", "payload"}
Raised(list) == [raised |-> TRUE, value |-> list]
Returned(list) == [raised |-> FALSE, value |-> list]

\* a handler that lets the exception through
Except_Reraise(outcome) == outcome

\* try: ... except Exception: the error is logged, the list stays as built
Except(outcome) == Returned(outcome.value)

\* an <item> whose link makes urljoin raise; an article that is not an object
Broken == [broken |-> TRUE]

\* _parse_rss_item: its try block
ParseEntry(entry) ==
    IF entry = Broken THEN Raised(<<>>) ELSE Returned(ParseRssItem(entry))

\* for item in items[:items_to_process], each in its own try/except
RECURSIVE TryItems(_, _)
TryItems(entries, news_list) ==
    IF entries = <<>> THEN Returned(news_list)
    ELSE LET parsed == Except(ParseEntry(Head(entries)))     \* inside _parse_rss_item
             item == Except(parsed)                          \* around the call
         IN  IF item.raised THEN Raised(news_list)
             ELSE TryItems(Tail(entries), news_list \o item.value)

\* the try block of one pass over feeds[:3]
TryFeed(feed, language, limit, news_list) ==
    LET share == limit \div FeedCount(language)
        items_to_process == IF share < 1 THEN 1 ELSE share
    IN  IF feed.fault # "none" THEN Raised(news_list)
        ELSE TryItems(Take(feed.entries, items_to_process), news_list)

RECURSIVE TryFeeds(_, _, _, _)
TryFeeds(feeds, language, limit, news_list) ==
    IF feeds = <<>> THEN Returned(news_list)
    ELSE LET pass == Except(TryFeed(Head(feeds), language, limit, news_list))
         IN  IF pass.raised THEN pass
             ELSE TryFeeds(Tail(feeds), language, limit, pass.value)

\* fetch_rss_news(language, limit) against the answers of the feeds
RssCall(feeds, language, limit) ==
    LET loop == Except(TryFeeds(Take(feeds, FeedsRead), language, limit, <<>>))
    IN  IF loop.raised THEN loop ELSE Returned(Take(loop.value, limit))

\* for article in data.get(...): news_list.append({...})
RECURSIVE TryArticles(_, _)
TryArticles(articles, news_list) ==
    IF articles = <<>> THEN Returned(news_list)
    ELSE IF Head(articles) = Broken THEN Raised(news_list)
    ELSE TryArticles(Tail(articles), Append(news_list, ArticleItem(Head(articles))))

\* fetch_api_news, fetch_mediastack_news against the answer of the service
RestCall(response) ==
    IF ~response.key THEN Returned(<<>>)
    ELSE Except(IF response.fault # "none" THEN Raised(<<>>)
                ELSE TryArticles(response.entries, <<>>))

Feed(fault, entries) == [fault |-> fault, entries |-> entries]
Response(key, fault, entries) == [key |-> key, fault |-> fault, entries |-> entries]

CallFetchRssNews(language, limit) ==
    /\ returned' = [op |-> "fetch_rss_news", language |-> language, limit |-> limit]
                       @@ RssCall(world.rss, language, limit)
    /\ UNCHANGED <<sched_vars, input_news, input_keywords, input_exclude, user_data, world, last_news>>

CallFetchApiNews ==
    /\ returned' = [op |-> "fetch_api_news"] @@ RestCall(world.api)
    /\ UNCHANGED <<sched_vars, input_news, input_keywords, input_exclude, user_data, world, last_news>>

CallFetchMediastackNews ==
    /\ returned' = [op |-> "fetch_mediastack_news"] @@ RestCall(world.mediastack)
    /\ UNCHANGED <<sched_vars, input_news, input_keywords, input_exclude, user_data, world, last_news>>

(* The adapters, called once each, against failing and answering backends *)
FaultyFeeds == {Feed("network", <<>>), Feed("status", <<>>), Feed("body", <<>>)}
FeedAnswers1 ==
    FaultyFeeds \cup {Feed("none", <<Entry(Str(<<"B", "i", "t", "c", "o", "i", "n", " ", "r", "a", "l", "l", "i", "e", "s">>), Absent), Broken,
                                     Entry(Str(<<"R", "a", "i", "n">>), Str(<<"C", "o", "l", "d">>))>>)}
FeedAnswers2 == FaultyFeeds \cup {Feed("none", StoryEntries(1, FeedPage))}
FeedAnswers3 == {Feed("rate_limit", <<>>), Feed("none", <<Broken, Entry(Str(<<"E", "t", "h", " ", "f", "a", "l", "l", "s">>), Absent)>>)}
RestAnswers ==
    {Response(FALSE, "none", <<>>)}
    \cup {Response(TRUE, f, <<>>) : f \in Faults}
    \cup {Response(TRUE, "none", <<NewsItem(Str(<<"E", "t", "h", " ", "f", "a", "l", "l", "s">>), None), Broken,
                                   NewsItem(Str(<<"R", "a", "i", "n">>), Str(<<"W", "e", "t">>))>>)}
RssLimits == {SourceLimit, TopicsLimit}

InitAdapters ==
    /\ SchedulerIdle
    /\ input_news = <<>>
    /\ input_keywords = <<>>
    /\ input_exclude = <<>>
    /\ user_data = NoUserData
    /\ world \in [rss : FeedAnswers1 \X FeedAnswers2 \X FeedAnswers3,
                  api : RestAnswers, mediastack : {Response(FALSE, "none", <<>>)}]
            \cup [rss : {<<Feed("network", <<>>), Feed("network", <<>>), Feed("network", <<>>)>>},
                  api : {Response(FALSE, "none", <<>>)}, mediastack : RestAnswers]
    /\ returned = NoResult
    /\ last_news = NotCached

NextAdapters ==
    \/ \E language \in LanguageArgs, limit \in RssLimits : CallFetchRssNews(language, limit)
    \/ CallFetchApiNews
    \/ CallFetchMediastackNews

SpecAdapters == InitAdapters /\ [][NextAdapters]_vars

------------------------------------------------------------------------------
(* Properties of the adapters *)

NotBroken(entry) == entry # Broken

\* what a feed that answered contributes: its well-formed items among the
\* first items_to_process, in feed order
Contribution(feed, language, limit) ==
    IF feed.fault # "none" THEN <<>>
    ELSE ParseRssItems(SelectSeq(Take(feed.entries,
                                      IF limit \div FeedCount(language) < 1 THEN 1
                                      ELSE limit \div FeedCount(language)),
                                 NotBroken))

AdapterCalled == returned.op \in {"fetch_rss_news", "fetch_api_news", "fetch_mediastack_news"}

\* C23: a call of fetch_rss_news, fetch_api_news or fetch_mediastack_news
\* returns a list and raises nothing, whatever fails (missing key, network
\* error, bad status, rate limit, unparseable body, malformed article); and
\* the feeds that answered keep their items in the result of fetch_rss_news
\* when another feed of the same call failed.
C23_AdaptersNeverRaise ==
    AdapterCalled =>
        /\ ~returned.raised
        /\ DOMAIN returned.value = 1..Len(returned.value)
        /\ returned.op = "fetch_rss_news" =>
               returned.value =
                   Take(Contribution(world.rss[1], returned.language, returned.limit)
                        \o Contribution(world.rss[2], returned.language, returned.limit)
                        \o Contribution(world.rss[3], returned.language, returned.limit),
                        returned.limit)

\* a failed feed between two feeds whose items are returned
C23_Witness ==
    /\ returned.op = "fetch_rss_news"
    /\ world.rss[1].fault = "none" /\ world.rss[2].fault # "none" /\ world.rss[3].fault = "none"
    /\ \E i, j \in DOMAIN returned.value :
           /\ returned.value[i].title = Str(<<"R", "a", "i", "n">>)
           /\ returned.value[j].title = Str(<<"E", "t", "h", " ", "f", "a", "l", "l", "s">>)

------------------------------------------------------------------------------
(* _safe_reply.  `world` holds whether the update carries a message and    *)
(* what each call of msg.reply_text does: it returns the sent message,     *)
(* raises TimedOut, or raises another error of the Bot API.                *)

SendOutcomes == {"sent", "timed_out", "error"}
Retries == 3                 \* for attempt in range(3)
Sent == [sent |-> TRUE]

\* the last attempt, after the loop: except Exception, a warning, None
LastAttempt(sends, attempt, waits) ==
    [raised |-> FALSE,
     value |-> IF sends[attempt + 1] = "sent" THEN Sent ELSE None,
     attempts |-> attempt + 1,
     waits |-> waits]

\* the loop from `attempt` on: only TimedOut is caught, then asyncio.sleep(2 ** attempt)
RECURSIVE Attempts(_, _, _)
Attempts(sends, attempt, waits) ==
    IF attempt >= Retries THEN LastAttempt(sends, attempt, waits)
    ELSE IF sends[attempt + 1] = "sent"
      THEN [raised |-> FALSE, value |-> Sent, attempts |-> attempt + 1, waits |-> waits]
    ELSE IF sends[attempt + 1] = "timed_out"
      THEN Attempts(sends, attempt + 1, Append(waits, 2 ^ attempt))
    ELSE [raised |-> TRUE, value |-> None, attempts |-> attempt + 1, waits |-> waits]

\* _safe_reply(update, text)
SafeReply(w) ==
    IF ~w.message
      THEN [raised |-> FALSE, value |-> None, attempts |-> 0, waits |-> <<>>]
      ELSE Attempts(w.sends, 0, <<>>)

CallSafeReply ==
    /\ returned' = [op |-> "_safe_reply"] @@ SafeReply(world)
    /\ UNCHANGED <<sched_vars, input_news, input_keywords, input_exclude, user_data, world, last_news>>

InitReply ==
    /\ SchedulerIdle
    /\ input_news = <<>>
    /\ input_keywords = <<>>
    /\ input_exclude = <<>>
    /\ user_data = NoUserData
    /\ world \in [message : BOOLEAN, sends : [1..(Retries + 1) -> SendOutcomes]]
    /\ returned = NoResult
    /\ last_news = NotCached

NextReply == CallSafeReply

SpecReply == InitReply /\ [][NextReply]_vars

\* C24: _safe_reply makes at most four send attempts, waits 1, 2 and 4
\* seconds after the first, second and third failed attempt, and whatever
\* the attempts do (time out or fail otherwise) it returns the sent message
\* or None and raises nothing.
C24_SafeReplyNeverRaises ==
    returned.op = "_safe_reply" =>
        /\ returned.attempts <= 4
        /\ returned.waits = SubSeq(<<1, 2, 4>>, 1, Len(returned.waits))
        /\ Len(returned.waits) = IF returned.attempts = 0 THEN 0 ELSE returned.attempts - 1
        /\ ~returned.raised
        /\ returned.value \in {Sent, None}

------------------------------------------------------------------------------
(* Properties of the weekday jobs *)

Weekdays == Monday..Friday
OnWeekdays(u) == users_data[u] # NoProfile /\ users_data[u].digest_frequency = "weekdays"

\* C25: for frequency weekdays the registry holds, once schedule_user_digest
\* has run for the user, one weekly job for each of Monday to Friday at the
\* configured time and none for Saturday or Sunday; each job waits for the
\* next occurrence of its own day and time, never for a later one, so a fire
\* happens on a weekday slot only, no weekday slot is passed over and no two
\* jobs fire for the same slot.
C25_WeekdaysJobs ==
    \A u \in Users :
        (OnWeekdays(u) /\ UserJobs(jobs, u) # <<>>) =>
            LET js == UserJobs(jobs, u)
            IN  /\ Len(js) = 5
                /\ \A d \in Weekdays : \E i \in DOMAIN js : js[i].start_day = d
                /\ \A i \in DOMAIN js :
                      /\ js[i].start_day \in Weekdays
                      /\ js[i].at = SlotOf(u)
                      /\ Weekday(js[i].next_run) = js[i].start_day
                      /\ TimeOfDay(js[i].next_run) = SlotOf(u)
                      /\ js[i].next_run <= now + Days(DaysPerWeek)
                /\ \A i, j \in DOMAIN js : i # j => js[i].next_run # js[j].next_run
                /\ (pc = "job" /\ cur.user = u) =>
                      /\ Weekday(cur.slot) \in Weekdays
                      /\ TimeOfDay(cur.slot) = SlotOf(u)
                      /\ cur.slot <= now

\* the Friday job fires in the second week
C25_Witness ==
    /\ OnWeekdays(1) /\ Len(UserJobs(jobs, 1)) = 5
    /\ pc = "job" /\ cur.user = 1 /\ cur.start_day = Friday
    /\ cur.slot >= Days(DaysPerWeek)

------------------------------------------------------------------------------
(* schedule_user_digest statement by statement.  The handler thread and    *)
(* the scheduler thread share schedule's job list without a lock, so a     *)
(* tick can run between any two statements of the call.                    *)

\* the start days of the jobs the call registers, in the order of its statements
DaysToAdd(frequency) ==
    IF frequency = "daily" THEN <<NoDay>>
    ELSE IF frequency = "weekly" THEN <<Monday>>
    ELSE IF frequency = "weekdays" THEN WeekdayJobs
    ELSE <<>>

\* /time <arg> for a user whose digest is on, as far as _remove_user_jobs
TimeCommandClear(u, t) ==
    /\ running /\ handler = NoCall
    /\ users_data[u] # NoProfile /\ users_data[u].digest_enabled
    /\ users_data[u].digest_frequency \in valid_frequencies
    /\ StrptimeAccepts(t) /\ AtAccepts(t)
    /\ users_data' = [users_data EXCEPT ![u] = Merge(users_data[u], [digest_time |-> t])]
    /\ data_file' = users_data'
    /\ jobs' = RemoveUserJobs(jobs, u)
    /\ handler' = [user |-> u, t |-> t,
                   days |-> DaysToAdd(users_data[u].digest_frequency)]
    /\ last' = [op |-> "clear", user |-> u]
    /\ ret' = NoRet
    /\ UNCHANGED <<now, running, pc, queue, cur, news_vars, threads>>

\* the next schedule.every()...at(digest_time).do(...).tag(...) of that call
RegisterNext ==
    /\ handler # NoCall
    /\ jobs' = AddJob(jobs, handler.user, Head(handler.days), handler.t, now)
    /\ handler' = IF Len(handler.days) = 1 THEN NoCall
                  ELSE [handler EXCEPT !.days = Tail(handler.days)]
    /\ last' = [op |-> "register", user |-> handler.user]
    /\ ret' = NoRet
    /\ UNCHANGED <<users_data, now, running, pc, queue, cur, news_vars, data_file, threads>>

(* Two users, digests switched on and off, /time while ticks run *)
RaceTimeArgs == {T(9, 0, TRUE)}

NextRace ==
    \/ Run
    \/ \E u \in Users : ToggleDigest(u)
    \/ \E u \in Users, t \in RaceTimeArgs : TimeCommandClear(u, t)
    \/ RegisterNext
    \/ TickStart
    \/ \E o \in Outcomes : JobStart(o)
    \/ JobFinish
    \/ AdvanceClock(RaceDays)

SpecRace == Init /\ [][NextRace]_vars

\* C26: while schedule_user_digest runs on the handler thread, a tick of the
\* scheduler thread dispatches no job that the call has removed from the
\* registry, and reads the registry only when no call is between its
\* statements (old jobs removed, not all new jobs registered).
C26_RescheduleAtomic ==
    [][/\ last'.op = "dispatch" => \E i \in DOMAIN jobs : Same(cur', jobs[i])
       /\ last'.op = "tick" => handler = NoCall]_vars

------------------------------------------------------------------------------
(* search_command: the /search handler *)

SearchLimit == 50            \* fetch_rss_news(lang, 50), fetch_api_news(lang, region, 50)
GroupCap == 5                \* filtered[:5]

\* [t.strip() for t in user_data.get("topics", []) if t.strip()]
RECURSIVE CleanTopics(_)
CleanTopics(topics) ==
    IF topics = <<>> THEN <<>>
    ELSE (IF Strip(Head(topics)) = <<>> THEN <<>> ELSE <<Strip(Head(topics))>>)
         \o CleanTopics(Tail(topics))

\* all_news before remove_duplicates
SearchNews(p, w) ==
    (IF InList("rss", p.sources) THEN FetchRssNews(w, p.language, SearchLimit) ELSE <<>>)
    \o (IF InList("api", p.sources)
          THEN FetchApiNews(w) \o FetchMediastackNews(w) ELSE <<>>)

\* (changed: a topic without matches keeps its empty group)
RECURSIVE SearchGroups_KeepEmpty(_, _)
SearchGroups_KeepEmpty(all_news, topics) ==
    IF topics = <<>> THEN <<>>
    ELSE <<[topic |-> Head(topics),
            items |-> Take(FilterNews(all_news, <<Head(topics)>>, <<>>), GroupCap)]>>
         \o SearchGroups_KeepEmpty(all_news, Tail(topics))

\* for t in topics: filter_news(all_news, keywords=[t]); groups.append((t, filtered[:5]))
RECURSIVE SearchGroups(_, _)
SearchGroups(all_news, topics) ==
    IF topics = <<>> THEN <<>>
    ELSE LET filtered == FilterNews(all_news, <<Head(topics)>>, <<>>)
         IN  (IF filtered # <<>>
                THEN <<[topic |-> Head(topics), items |-> Take(filtered, GroupCap)]>>
                ELSE <<>>)
             \o SearchGroups(all_news, Tail(topics))

\* [it for _, lst in groups for it in lst]
RECURSIVE Flat(_)
Flat(groups) == IF groups = <<>> THEN <<>> ELSE Head(groups).items \o Flat(Tail(groups))

\* an exception leaves search_command: remove_duplicates or filter_news raised
SearchRaises(p, w) ==
    /\ CleanTopics(p.topics) # <<>>
    /\ \/ RemoveDuplicatesRaises(SearchNews(p, w))
       \/ FilterNewsRaises(RemoveDuplicates(SearchNews(p, w)))

\* /search
SearchCommand(u) ==
    /\ handler = NoCall
    /\ users_data' = GetUserData(users_data, u)
    /\ data_file' = IF users_data[u] = NoProfile THEN users_data' ELSE data_file
    /\ LET p == users_data'[u]
           topics == CleanTopics(p.topics)
           raised == SearchRaises(p, world)
           all_news == IF topics = <<>> \/ raised THEN <<>>
                       ELSE RemoveDuplicates(SearchNews(p, world))
           groups == SearchGroups(all_news, topics)
       IN  /\ returned' = [op |-> "search", user |-> u, raised |-> raised,
                           value |-> groups, pool |-> all_news]
           /\ last_news' = IF groups # <<>> THEN Cached(Flat(groups)) ELSE last_news
    /\ last' = [op |-> "search", user |-> u]
    /\ ret' = NoRet
    /\ UNCHANGED <<jobs, now, running, pc, queue, cur, handler, threads,
                   input_news, input_keywords, input_exclude, user_data, world>>

(* /search of one user over profiles, backend answers and an earlier list *)
SearchTopicArgs ==
    {<<>>, << <<" ", "S", "t", "o", "r", "y", " ">>, <<"g", "o", "l", "d">>, <<" ">>, <<"R", "a", "i", "n">> >>, << <<"g", "o", "l", "d">> >>,
     << <<"b", "i", "t", "c", "o", "i", "n">>, <<"e", "t", "h">> >>}
SearchSourceArgs == {<<"rss">>, <<"api">>, <<"rss", "api">>}
SearchProfiles ==
    {[DefaultProfile EXCEPT !.topics = t, !.sources = s] :
        t \in SearchTopicArgs, s \in SearchSourceArgs}
SearchFeeds ==
    {<<Down, Down, Down>>,
     <<Ok(<<Entry(Str(<<"B", "i", "t", "c", "o", "i", "n", " ", "r", "a", "l", "l", "i", "e", "s">>), Absent),
            Entry(Str(<<"b", "i", "t", "c", "o", "i", "n", " ", "r", "a", "l", "l", "i", "e", "s">>), Str(<<"M", "a", "r", "k", "e", "t", "s", " ", "u", "p">>))>>),
       Down,
       Ok(<<Entry(Str(<<"R", "a", "i", "n">>), Str(<<"C", "o", "l", "d">>)), Entry(Str(<<"B", "i", "g", " ", "S", "A", "L", "E">>), Absent)>>)>>}
EarlierLists == {NotCached, Cached(<<NewsItem(Str(<<"O", "l", "d", " ", "s", "t", "o", "r", "y">>), Str(<<>>))>>)}

InitSearch ==
    /\ \E p \in SearchProfiles \cup {NoProfile} :
          users_data = [u \in Users |-> IF u = 1 THEN p ELSE NoProfile]
    /\ jobs = <<>>
    /\ now = StartOfClock
    /\ running = TRUE
    /\ pc = "sleep"
    /\ queue = <<>>
    /\ cur = NoJob
    /\ ret = NoRet
    /\ last = [op |-> "run"]
    /\ data_file = users_data
    /\ handler = NoCall
    /\ threads = <<>>
    /\ input_news = <<>>
    /\ input_keywords = <<>>
    /\ input_exclude = <<>>
    /\ user_data = NoUserData
    /\ world \in [rss : SearchFeeds, api : ApiAnswers, mediastack : MediastackAnswers]
    /\ returned = NoResult
    /\ last_news \in EarlierLists

NextSearch == SearchCommand(1)

SpecSearch == InitSearch /\ [][NextSearch]_vars

------------------------------------------------------------------------------
(* Properties of /search *)

\* the items of the pool that a topic selects, in pool order
Matching(pool, topic) ==
    SelectSeq(pool, LAMBDA news : Has(news, topic) /\ ~Promotional(news))

\* the declared topics that are not blank, trimmed, in the order of the profile
Declared(profile) ==
    LET topics == profile.topics
        NotBlank(t) == Strip(t) # <<>>
        kept == SelectSeq(topics, NotBlank)
    IN  [i \in DOMAIN kept |-> Strip(kept[i])]

\* the topics with at least one matching item, in declared order
Answered(pool, topics) ==
    SelectSeq(topics, LAMBDA t : Matching(pool, t) # <<>>)

Searched == returned.op = "search" /\ ~returned.raised

\* C27: /search filters one deduplicated pool once per topic; its groups are
\* the topics with at least one matching item, in the order the profile
\* declares them, each with the first five matching items in pool order; when
\* no topic matches, the cached last result list stays as it was.
C27_SearchGroups ==
    [][Searched' =>
         LET groups == returned'.value
             pool == returned'.pool
             topics == Answered(pool, Declared(users_data'[returned'.user]))
         IN  /\ Cardinality({Normalized(pool[i].title.s) : i \in DOMAIN pool}) = Len(pool)
             /\ groups = [g \in DOMAIN topics |->
                            [topic |-> topics[g],
                             items |-> Take(Matching(pool, topics[g]), 5)]]
             /\ \A g \in DOMAIN groups : groups[g].items # <<>>
             /\ groups = <<>> => last_news' = last_news
             /\ groups # <<>> => last_news'.cached]_vars

\* three topics declared, the second without a match, the first with more
\* than five matching items
C27_Witness ==
    /\ Searched
    /\ Len(Declared(users_data[returned.user])) = 3
    /\ Len(returned.value) = 2
    /\ Len(Matching(returned.pool, returned.value[1].topic)) > 5
    /\ Len(returned.value[1].items) = 5

------------------------------------------------------------------------------
(* _fetch_newsapi_smart_sync.  `world` holds whether NEWSAPI_KEY is set and *)
(* what the service does with the first, second, ... request of the call:  *)
(*   "articles"    status 200, "status": "ok", a non-empty "articles"      *)
(*   "empty"       status 200, "status": "ok", no articles                 *)
(*   "rate_limit"  status 429                                              *)
(*   "error"       another status that is not ok                           *)
(*   "exception"   requests.get raises                                     *)

ApiOutcomes == {"articles", "empty", "rate_limit", "error", "exception"}

allowed_lang ==
    { <<"a", "r">>, <<"d", "e">>, <<"e", "n">>, <<"e", "s">>, <<"f", "r">>, <<"h", "e">>, <<"i", "t">>, <<"n", "l">>, <<"n", "o">>, <<"p", "t">>,
      <<"r", "u">>, <<"s", "v">>, <<"u", "d">>, <<"z", "h">> }

region_lang ==
    { << <<"r", "u">>, <<"r", "u">> >>, << <<"u", "a">>, <<"r", "u">> >>, << <<"b", "y">>, <<"r", "u">> >>,
      << <<"u", "s">>, <<"e", "n">> >>, << <<"g", "b">>, <<"e", "n">> >>, << <<"c", "a">>, <<"e", "n">> >>, << <<"a", "u">>, <<"e", "n">> >>,
      << <<"d", "e">>, <<"d", "e">> >>, << <<"f", "r">>, <<"f", "r">> >>, << <<"e", "s">>, <<"e", "s">> >>, << <<"i", "t">>, <<"i", "t">> >>,
      << <<"n", "l">>, <<"n", "l">> >>, << <<"p", "t">>, <<"p", "t">> >>, << <<"n", "o">>, <<"n", "o">> >>, << <<"s", "e">>, <<"s", "v">> >>,
      << <<"c", "n">>, <<"z", "h">> >>, << <<"j", "p">>, <<"e", "n">> >>, << <<"k", "r">>, <<"e", "n">> >> }

\* d.get(key, default) for a dict of str
DictGet(d, key, default) ==
    IF \E e \in d : e[1] = key THEN (CHOOSE e \in d : e[1] = key)[2] ELSE default

\* user_lang: (user_data.get("language") or "").lower(), "en" when not allowed
UserLang(language) == IF Lower(language) \in allowed_lang THEN Lower(language) ELSE <<"e", "n">>

Request(endpoint, arg) == [endpoint |-> endpoint, arg |-> arg]
TopRequest(country) == Request("top-headlines", country)
EverythingRequest(lang) == Request("everything", IF lang \in allowed_lang THEN lang ELSE <<"e", "n">>)

\* call_top, call_everything: the articles, [] for 429, a bad status or an exception
CallResult(outcome, request) == IF outcome = "articles" THEN <<request>> ELSE <<>>

\* the requests of the call in the order of its statements
RequestPlan(user_lang, region) ==
    IF region # <<>> /\ Len(region) = 2
      THEN LET reg == Lower(region)
               lang == DictGet(region_lang, reg, user_lang)
           IN  <<TopRequest(reg), EverythingRequest(lang)>>
               \o (IF reg # <<"u", "s">> THEN <<TopRequest(<<"u", "s">>)>> ELSE <<>>)
               \o (IF lang # <<"e", "n">> THEN <<EverythingRequest(<<"e", "n">>)>> ELSE <<>>)
      ELSE <<EverythingRequest(user_lang), EverythingRequest(<<"e", "n">>), TopRequest(<<"u", "s">>)>>

\* (changed: every request is sent, the first non-empty answer is returned)
RECURSIVE FirstNonEmpty_SendAll(_, _, _)
FirstNonEmpty_SendAll(requests, outcomes, calls) ==
    IF requests = <<>> THEN [value |-> <<>>, calls |-> calls]
    ELSE LET arts == CallResult(outcomes[Len(calls) + 1], Head(requests))
             rest == FirstNonEmpty_SendAll(Tail(requests), outcomes, Append(calls, Head(requests)))
         IN  [value |-> IF arts # <<>> THEN arts ELSE rest.value, calls |-> rest.calls]

\* arts = call_...(...); if arts: return arts -- for each request in turn
RECURSIVE FirstNonEmpty(_, _, _)
FirstNonEmpty(requests, outcomes, calls) ==
    IF requests = <<>> THEN [value |-> <<>>, calls |-> calls]
    ELSE LET arts == CallResult(outcomes[Len(calls) + 1], Head(requests))
         IN  IF arts # <<>> THEN [value |-> arts, calls |-> Append(calls, Head(requests))]
             ELSE FirstNonEmpty(Tail(requests), outcomes, Append(calls, Head(requests)))

\* _fetch_newsapi_smart_sync(user_data, query, region)
FetchNewsapiSmart(w, language, region) ==
    IF ~w.key THEN [value |-> <<>>, calls |-> <<>>]
    ELSE FirstNonEmpty(RequestPlan(UserLang(language), region), w.outcomes, <<>>)

CallFetchNewsapiSmart(language, region) ==
    /\ returned' = [op |-> "_fetch_newsapi_smart_sync", raised |-> FALSE,
                    language |-> language, region |-> region]
                       @@ FetchNewsapiSmart(world, language, region)
    /\ UNCHANGED <<sched_vars, input_news, input_keywords, input_exclude, user_data, world,
                   last_news>>

MaxRequests == 4
SmartLanguages == { <<"R", "U">>, <<"e", "n">>, <<"x", "x">> }
SmartRegions == { <<>>, <<"r", "u">>, <<"U", "S">>, <<"g", "b">>, <<"s", "e">>, <<"b", "r">>, <<"u", "s", "a">> }

InitSmart ==
    /\ SchedulerIdle
    /\ input_news = <<>>
    /\ input_keywords = <<>>
    /\ input_exclude = <<>>
    /\ user_data = NoUserData
    /\ world \in [key : BOOLEAN, outcomes : [1..MaxRequests -> ApiOutcomes]]
    /\ returned = NoResult
    /\ last_news = NotCached

NextSmart ==
    \E language \in SmartLanguages, region \in SmartRegions :
        CallFetchNewsapiSmart(language, region)

SpecSmart == InitSmart /\ [][NextSmart]_vars

------------------------------------------------------------------------------
(* Properties of the smart search *)

\* the language of a region: Sweden reads Swedish, Russia Russian, the United
\* States and Britain English; a region outside the table takes the user's
LanguageOf(reg, language) ==
    IF reg = <<"r", "u">> THEN <<"r", "u">>
    ELSE IF reg \in { <<"u", "s">>, <<"g", "b">> } THEN <<"e", "n">>
    ELSE IF reg = <<"s", "e">> THEN <<"s", "v">>
    ELSE IF Lower(language) = <<"r", "u">> THEN <<"r", "u">> ELSE <<"e", "n">>

\* the order the claim gives for a two-letter region
Order(reg, lang) ==
    << [endpoint |-> "top-headlines", arg |-> reg],
       [endpoint |-> "everything", arg |-> lang] >>
    \o (IF reg = <<"u", "s">> THEN <<>> ELSE << [endpoint |-> "top-headlines", arg |-> <<"u", "s">>] >>)
    \o (IF lang = <<"e", "n">> THEN <<>> ELSE << [endpoint |-> "everything", arg |-> <<"e", "n">>] >>)

SmartCalled ==
    /\ returned.op = "_fetch_newsapi_smart_sync"
    /\ world.key /\ Len(returned.region) = 2

\* C28: with a two-letter region the requests are, in order, top-headlines
\* for the region, everything for the region's language, top-headlines for
\* us unless the region is us, everything for en unless that language is en;
\* the call returns the articles of the first request answered with articles
\* and sends nothing after it; a 429 counts as an empty answer; when no
\* request is answered with articles the result is the empty list.
C28_SmartOrder ==
    SmartCalled =>
        LET order == Order(Lower(returned.region),
                           LanguageOf(Lower(returned.region), returned.language))
            calls == returned.calls
            n == Len(calls)
        IN  /\ n >= 1 /\ n <= Len(order)
            /\ calls = SubSeq(order, 1, n)
            /\ \A k \in 1..(n - 1) : world.outcomes[k] # "articles"
            /\ returned.value # <<>> =>
                   /\ world.outcomes[n] = "articles"
                   /\ returned.value = <<calls[n]>>
            /\ returned.value = <<>> =>
                   /\ n = Len(order)
                   /\ world.outcomes[n] # "articles"
            /\ ~returned.raised

\* a 429 on the region's top-headlines, nothing for its language, then the
\* articles of top-headlines for us
C28_Witness ==
    /\ SmartCalled
    /\ returned.region = <<"s", "e">>
    /\ world.outcomes[1] = "rate_limit" /\ world.outcomes[2] = "empty"
    /\ world.outcomes[3] = "articles" /\ world.outcomes[4] = "articles"
    /\ Len(returned.calls) = 3
    /\ returned.value = << [endpoint |-> "top-headlines", arg |-> <<"u", "s">>] >>

------------------------------------------------------------------------------
(* NewsFormatter.format_digest: the digest grouped by source *)

MaxDigest == 5
FormatDays == 1

\* an item of the digest: title is always set by the adapters, source may be missing
DigestItem(source, title) == [source |-> source, title |-> title]

\* strftime('%d.%m.%Y'): the calendar day of the clock
StrftimeDate(t) == [kind |-> "date", date |-> DayOf(t)]

\* `not date': None and the empty string
NotDate(date) == date = None \/ date = Str(<<>>)

\* the pieces appended to message, in order
HeaderPiece(date) == [piece |-> "header", date |-> date]
NotFoundPiece == [piece |-> "not found"]
SourcePiece(source) == [piece |-> "source", source |-> source]
TitlePiece(title) == [piece |-> "title", title |-> title]
NewlinePiece == [piece |-> "newline"]
CallToAction == [piece |-> "call to action"]

\* sources: a dict in insertion order, as a sequence of (source, items)
RECURSIVE GroupSources(_, _)
GroupSources(news_list, sources) ==
    IF news_list = <<>> THEN sources
    ELSE LET news == Head(news_list)
             source == Get(news.source, <<"U", "n", "k", "n", "o", "w", "n">>)
         IN  IF \E k \in DOMAIN sources : sources[k].source = source
             THEN GroupSources(Tail(news_list),
                      [k \in DOMAIN sources |->
                          IF sources[k].source = source
                          THEN [sources[k] EXCEPT !.news = Append(@, news)]
                          ELSE sources[k]])
             ELSE GroupSources(Tail(news_list),
                      Append(sources, [source |-> source, news |-> <<news>>]))

\* (changed: every item of the source is listed)
SourceNews_All(source_news) == source_news

\* source_news[:3]
SourceNews(source_news) == Take(source_news, 3)

RECURSIVE SourceSections(_)
SourceSections(sources) ==
    IF sources = <<>> THEN <<>>
    ELSE LET listed == SourceNews(Head(sources).news)
         IN  <<SourcePiece(Head(sources).source)>>
             \o [i \in DOMAIN listed |-> TitlePiece(listed[i].title)]
             \o <<NewlinePiece>>
             \o SourceSections(Tail(sources))

FormatDigest(news_list, date, clock) ==
    LET shown == IF NotDate(date) THEN StrftimeDate(clock) ELSE date
        message == <<HeaderPiece(shown)>>
    IN  IF news_list = <<>> THEN Append(message, NotFoundPiece)
        ELSE message \o SourceSections(GroupSources(news_list, <<>>)) \o <<CallToAction>>

\* news_formatter.format_digest(news_list, date)
CallFormatDigest(date) ==
    /\ returned' = [op |-> "format_digest", raised |-> FALSE, news_list |-> input_news,
                    date |-> date, value |-> FormatDigest(input_news, date, now)]
    /\ UNCHANGED <<sched_vars, input_news, input_keywords, input_exclude, user_data, world,
                   last_news>>

DigestPool ==
    {DigestItem(Str(<<"A">>), Str(<<"a">>)), DigestItem(Str(<<"A">>), Str(<<"b">>)),
     DigestItem(Str(<<"B">>), Str(<<"a">>)), DigestItem(Absent, Str(<<"c">>)),
     DigestItem(Str(<<"U", "n", "k", "n", "o", "w", "n">>), Str(<<"d">>))}

DigestDates == {None, Str(<<>>), Str(<<"0", "1", ".", "0", "2", ".", "2", "0", "2", "5">>)}

InitFormat ==
    /\ SchedulerIdle
    /\ input_news \in UNION {[1..n -> DigestPool] : n \in 0..MaxDigest}
    /\ input_keywords = <<>>
    /\ input_exclude = <<>>
    /\ user_data = NoUserData
    /\ world = NoWorld
    /\ returned = NoResult
    /\ last_news = NotCached

NextFormat ==
    \/ \E date \in DigestDates : CallFormatDigest(date)
    \/ AdvanceClock(FormatDays)

SpecFormat == InitFormat /\ [][NextFormat]_vars

------------------------------------------------------------------------------
(* Properties of the grouped digest *)

\* the source an item is listed under
SourceOf(news) == IF news.source = Absent THEN Str(<<"U", "n", "k", "n", "o", "w", "n">>) ELSE news.source

\* the places where a source appears for the first time
Firsts(list) == {i \in DOMAIN list : \A j \in 1..(i - 1) : SourceOf(list[j]) # SourceOf(list[i])}

\* the titles of a source in input order
TitlesOf(list, s) ==
    LET of == SelectSeq(list, LAMBDA n : SourceOf(n) = s)
    IN  [i \in DOMAIN of |-> of[i].title]

\* the titles printed below the source line at place p, up to the blank line
Below(text, p) ==
    LET end == CHOOSE e \in (p + 1)..Len(text) :
                   /\ text[e].piece # "title"
                   /\ \A q \in (p + 1)..(e - 1) : text[q].piece = "title"
    IN  [q \in 1..(end - p - 1) |-> text[p + q].title]

Formatted == returned.op = "format_digest" /\ returned.news_list # <<>>

\* grouped by source in order of first appearance, at most 3 titles per
\* group in input order, the call-to-action line last
DigestShape ==
    LET list == returned.news_list
        text == returned.value
        places == {p \in DOMAIN text : text[p].piece = "source"}
        Place(i) == CHOOSE p \in places :
                        Cardinality({q \in places : q <= p})
                            = Cardinality({j \in Firsts(list) : j <= i})
    IN  /\ Cardinality(places) = Cardinality(Firsts(list))
        /\ \A i \in Firsts(list) :
              /\ text[Place(i)].source = SourceOf(list[i])
              /\ Below(text, Place(i)) = Take(TitlesOf(list, SourceOf(list[i])), 3)
        /\ Cardinality({p \in DOMAIN text : text[p].piece = "title"})
              = Len(text) - 2 * Cardinality(places) - 2
        /\ text[Len(text)] = [piece |-> "call to action"]

\* a second call with the same items and the same date argument
SameCall ==
    /\ returned.op = "format_digest"
    /\ returned'.news_list = returned.news_list
    /\ returned'.date = returned.date

\* C29: for a non-empty item list format_digest groups the items by source in
\* order of first appearance, lists at most 3 titles per group in input order
\* and ends with the call-to-action line; the same item sequence gives the
\* same text on every call
C29_DigestText ==
    [][Formatted' => /\ DigestShape'
                     /\ SameCall => returned'.value = returned.value]_vars

\* the shape alone, whatever the day of the call
C29_Shape == Formatted => DigestShape

\* the same text when the date is passed or the calendar day is the same
C29_SameDay ==
    [][Formatted' /\ SameCall /\ returned.value[1] = returned'.value[1]
          => returned'.value = returned.value]_vars

\* five items of two sources, the larger one cut to three titles
C29_Capped ==
    /\ Formatted
    /\ Len(returned.news_list) = 5
    /\ Cardinality(Firsts(returned.news_list)) = 2
    /\ Len(returned.value) = 10

------------------------------------------------------------------------------
(* Properties of a null field in one source's answer *)

\* key present, value missing
NullField(news) == news.title = None \/ news.description = None

\* C31: when a source returns an article whose title or description is null,
\* fetch_news still returns the surviving items of the other sources: below
\* the cap every well-formed surviving item is in the result, up to duplicates,
\* so the aggregate is not emptied by the malformed item.
C31_NullFieldIsolated ==
    Fetched /\ (\E i \in DOMAIN Delivered : NullField(Delivered[i])) =>
        LET others == {i \in DOMAIN Delivered :
                          ~NullField(Delivered[i]) /\ Survives(Delivered[i])}
        IN  /\ others # {} => returned.value # <<>>
            /\ Len(returned.value) < 10 =>
                  \A i \in others :
                      \E k \in DOMAIN returned.value :
                          /\ IsStr(returned.value[k].title)
                          /\ Normalized(returned.value[k].title.s)
                                = Normalized(Delivered[i].title.s)

------------------------------------------------------------------------------
(* /save and the save button: the saved list of a profile *)

MaxSaved == 3

\* str.startswith(prefix)
StartsWith(s, prefix) == Len(s) >= Len(prefix) /\ SubSeq(s, 1, Len(prefix)) = prefix

\* target.startswith("http://") or target.startswith("https://")
IsUrl(target) == StartsWith(target, <<"h", "t", "t", "p", ":", "/", "/">>) \/ StartsWith(target, <<"h", "t", "t", "p", "s", ":", "/", "/">>)

\* an item of the last result list, and the item made for a bare URL
LinkItem(title, url) == [title |-> Str(title), url |-> Str(url)]
UrlItem(url, n, source) ==
    [title |-> Str(url), url |-> Str(url), date |-> Strftime(n), source |-> source]

\* user_data.get("saved", [])
SavedOf(profile) == IF "saved" \in DOMAIN profile THEN profile.saved ELSE <<>>

\* context.user_data.get("last_news", [])
LastNews(cache) == IF cache.cached THEN cache.items ELSE <<>>

\* (changed: the new item is put in front)
SaveItem_Front(ud, u, item) ==
    UpdateUserData(ud, jobs, u, [saved |-> <<item>> \o SavedOf(ud[u])], now)

\* saved.append(item); update_user_data(user_id, { "saved": saved })
SaveItem(ud, u, item) ==
    UpdateUserData(ud, jobs, u, [saved |-> Append(SavedOf(ud[u]), item)], now)

\* /save <number>  or  /save <url>
SaveResult(u, args) ==
    LET ud == GetUserData(users_data, u)
        created == users_data[u] = NoProfile
        target == Join(args)
        idx == ParseInt(target) - 1
        list == LastNews(last_news)
    IN  IF args = <<>> THEN Unchanged(ud, created, FALSE)
        ELSE IF IsUrl(target) THEN SaveItem(ud, u, UrlItem(target, now, "manual"))
        ELSE IF ~IntAccepts(target) THEN Unchanged(ud, created, FALSE)
        ELSE IF ~(0 <= idx /\ idx < Len(list)) THEN Unchanged(ud, created, FALSE)
        ELSE SaveItem(ud, u, list[idx + 1])

\* next((it for it in last_list if it.get("url") == url), ...)
FirstWithUrl(list, url, default) ==
    LET hits == {i \in DOMAIN list : list[i].url = Str(url)}
    IN  IF hits = {} THEN default
        ELSE list[CHOOSE i \in hits : \A j \in hits : i <= j]

\* the inline button  save|<url>
SaveButtonResult(u, url) ==
    LET ud == GetUserData(users_data, u)
    IN  SaveItem(ud, u, FirstWithUrl(LastNews(last_news), url, UrlItem(url, now, "unknown")))

SaveCommand(u, args) ==
    /\ running
    /\ Len(SavedOf(SaveResult(u, args).users_data[u])) <= MaxSaved
    /\ Apply(SaveResult(u, args), "save", u)

SaveButton(u, url) ==
    /\ running
    /\ Len(SavedOf(SaveButtonResult(u, url).users_data[u])) <= MaxSaved
    /\ Apply(SaveButtonResult(u, url), "save_button", u)

SaveArgs ==
    { <<>>, << <<"h", "t", "t", "p", "s", ":", "/", "/", "a", ".", "i", "o">> >>, << <<"h", "t", "t", "p", ":", "/", "/", "b", ".", "i", "o">> >>, << <<"1">> >>, << <<"2">> >>, << <<"+", "1">> >>,
      << <<"0">> >>, << <<"-", "1">> >>, << <<"3">> >>, << <<"x", "1">> >>, << <<"1">>, <<"2">> >>, << <<"f", "t", "p", ":", "/", "/", "c", ".", "i", "o">> >> }
SaveUrls == { <<"h", "t", "t", "p", "s", ":", "/", "/", "a", ".", "i", "o">>, <<"h", "t", "t", "p", "s", ":", "/", "/", "d", ".", "i", "o">> }
SaveLists ==
    { <<>>, << LinkItem(<<"R", "a", "i", "n">>, <<"h", "t", "t", "p", "s", ":", "/", "/", "a", ".", "i", "o">>) >>,
      << LinkItem(<<"R", "a", "i", "n">>, <<"h", "t", "t", "p", "s", ":", "/", "/", "a", ".", "i", "o">>), LinkItem(<<"E", "t", "h", " ", "f", "a", "l", "l", "s">>, <<"h", "t", "t", "p", "s", ":", "/", "/", "e", ".", "i", "o">>) >> }

InitSave ==
    /\ users_data \in [Users -> {NoProfile} \cup StoreProfiles]
    /\ jobs = <<>>
    /\ now = StartOfClock
    /\ running = FALSE
    /\ pc = "none"
    /\ queue = <<>>
    /\ cur = NoJob
    /\ ret = NoRet
    /\ last = [op |-> "init"]
    /\ data_file = users_data
    /\ handler = NoCall
    /\ threads = <<>>
    /\ input_news = <<>>
    /\ input_keywords = <<>>
    /\ input_exclude = <<>>
    /\ user_data = NoUserData
    /\ world = NoWorld
    /\ returned = NoResult
    /\ last_news \in {NotCached} \cup {Cached(list) : list \in SaveLists}

NextSave ==
    \/ Run
    \/ \E u \in Active, args \in SaveArgs : SaveCommand(u, args)
    \/ \E u \in Active, url \in SaveUrls : SaveButton(u, url)
    \/ \E u \in Active, lang \in LangButtons : SetLang(u, lang)

SpecSave == InitSave /\ [][NextSave]_vars

------------------------------------------------------------------------------
(* Properties of the saved list *)

\* the saved list of a user, empty before the first save
SavedList(ud, u) ==
    IF ud[u] = [none |-> TRUE] \/ "saved" \notin DOMAIN ud[u] THEN <<>> ELSE ud[u].saved

\* the positions /save accepts: 1 .. the length of the last result list
Positions ==
    LET n == Len(last_news.items)
    IN  UNION { { <<Digit[i + 1]>>, <<"+", Digit[i + 1]>> } : i \in 1..n }

Begins(s, prefix) == Len(s) >= Len(prefix) /\ \A i \in DOMAIN prefix : s[i] = prefix[i]

\* what the claim names: an index outside the last result list, or an
\* argument that is neither a number nor a URL
Refused(args) ==
    LET target == Join(args)
    IN  /\ ~Begins(target, <<"h", "t", "t", "p", ":", "/", "/">>)
        /\ ~Begins(target, <<"h", "t", "t", "p", "s", ":", "/", "/">>)
        /\ target \notin Positions

SaveStep == last'.op \in {"save", "save_button"}

\* C32: a save appends exactly one item to the end of the saved list and
\* leaves the earlier entries and their order unchanged; /save with an index
\* outside the last result list or with a non-numeric, non-URL argument
\* leaves the saved list unchanged.
C32_SaveAppends ==
    [][SaveStep =>
          LET u == last'.user
              before == SavedList(users_data, u)
              after == SavedList(users_data', u)
          IN  /\ \/ after = before
                 \/ /\ Len(after) = Len(before) + 1
                    /\ SubSeq(after, 1, Len(before)) = before
              /\ last'.ok <=> after # before
              /\ \A args \in SaveArgs :
                    SaveCommand(u, args) =>
                        IF Refused(args) THEN after = before
                        ELSE Len(after) = Len(before) + 1
              /\ last'.op = "save_button" => Len(after) = Len(before) + 1
              /\ \A v \in Users \ {u} : users_data'[v] = users_data[v]]_vars

\* a second item saved behind the first, by position
C32_Witness ==
    /\ last.op = "save"
    /\ last.ok
    /\ Len(SavedList(users_data, last.user)) = 2
    /\ SavedList(users_data, last.user)[1] # SavedList(users_data, last.user)[2]
    /\ SavedList(users_data, last.user)[2] \in {last_news.items[i] : i \in DOMAIN last_news.items}

\* a bound below the number of saves explored
SavedBound == MaxSaved - 1

\* C33: under any sequence of save actions the length of a user's saved list
\* never exceeds a fixed bound.
C33_SavedBounded == \A u \in Users : Len(SavedList(users_data, u)) <= SavedBound

------------------------------------------------------------------------------
(* get_next_digest_time asked while the user's jobs are in the registry *)

NextShown ==
    \/ NextCycle
    \/ GetNextDigestTime(1)

SpecShown == InitCycle /\ [][NextShown]_vars

\* the earliest next run among the jobs of user u
EarliestRun(u) ==
    LET runs == {jobs[i].next_run : i \in {k \in DOMAIN jobs : jobs[k].user = u}}
    IN  CHOOSE t \in runs : \A s \in runs : t <= s

\* get_next_digest_time was asked for an enabled user whose jobs are
\* registered and none of them is due
Shown(u) ==
    /\ last.op = "next" /\ last.user = u
    /\ users_data[u] # [none |-> TRUE] /\ users_data[u].digest_enabled
    /\ \E i \in DOMAIN jobs : jobs[i].user = u
    /\ \A i \in DOMAIN jobs : jobs[i].user = u => jobs[i].next_run > now

\* C34: for an enabled user with a valid time and frequency, at every current
\* time, the time get_next_digest_time returns is the earliest next run among
\* the jobs schedule_user_digest registered for that user.
C34_ShownIsNextRun ==
    \A u \in Users :
        Shown(u) =>
            /\ ret.kind = "time"
            /\ Days(ret.date) + ret.hour * MinutesPerHour + ret.minute = EarliestRun(u)

\* the same for the daily frequency alone
C34_Daily ==
    \A u \in Users :
        Shown(u) /\ users_data[u].digest_frequency = "daily" =>
            /\ ret.kind = "time"
            /\ Days(ret.date) + ret.hour * MinutesPerHour + ret.minute = EarliestRun(u)

------------------------------------------------------------------------------
(* Properties of the first command of a new user *)

\* a handler passed its checks and called update_user_data
ReachedUpdate ==
    /\ last.op \in {"toggle", "time", "freq", "topic", "remove", "rename", "message",
                    "toggle_source", "set_lang", "save", "save_button"}
    /\ last.keys # {}

\* C35: every handler path that reaches update_user_data does so for a user
\* whose profile is in the store: the call does not fail on a missing user
\* and the profile holds the update, also when it is the user's first command.
C35_ProfileExists ==
    ReachedUpdate =>
        /\ last.ok
        /\ users_data[last.user] # [none |-> TRUE]
        /\ last.keys \subseteq DOMAIN users_data[last.user]

------------------------------------------------------------------------------
(* Properties of the requests of one smart search *)

\* C36: within one call of _fetch_newsapi_smart_sync no two requests have the
\* same endpoint and the same parameters, with or without a region and for
\* every user language.
C36_NoRepeatedRequest ==
    returned.op = "_fetch_newsapi_smart_sync" =>
        \A i, j \in DOMAIN returned.calls :
            i # j => ~(/\ returned.calls[i].endpoint = returned.calls[j].endpoint
                       /\ returned.calls[i].arg = returned.calls[j].arg)

\* the same for calls with a region of two letters
C36_WithRegion ==
    returned.op = "_fetch_newsapi_smart_sync" /\ Len(returned.region) = 2 =>
        \A i, j \in DOMAIN returned.calls : i # j => returned.calls[i] # returned.calls[j]

------------------------------------------------------------------------------
(* start_scheduler, stop_scheduler and the loop threads *)

MaxThreads == 3

\* Thread.is_alive()
Alive(thread) == thread # "dead"

\* (changed: start_scheduler does not look at the running flag)
AlreadyRunning_Never(flag) == FALSE

\* if self.running: return
AlreadyRunning(flag) == flag

\* start_scheduler(): a second start while running is ignored; otherwise
\* the flag is set and a new thread begins at the loop condition
StartScheduler ==
    /\ handler = NoCall
    /\ Len(threads) < MaxThreads
    /\ IF AlreadyRunning(running)
         THEN UNCHANGED <<running, threads>>
         ELSE /\ running' = TRUE
              /\ threads' = Append(threads, "check")
    /\ last' = [op |-> "start_scheduler", started |-> ~AlreadyRunning(running)]
    /\ ret' = NoRet
    /\ UNCHANGED <<users_data, jobs, now, pc, queue, cur, data_file, handler, news_vars>>

\* stop_scheduler(): the flag is cleared, then the caller joins
\* scheduler_thread, the thread started last
StopScheduler ==
    /\ handler = NoCall
    /\ running' = FALSE
    /\ handler' = IF threads # <<>> THEN [join |-> Len(threads)] ELSE NoCall
    /\ last' = [op |-> "stop_scheduler"]
    /\ ret' = NoRet
    /\ UNCHANGED <<users_data, jobs, now, pc, queue, cur, data_file, threads, news_vars>>

\* scheduler_thread.join(timeout=5) returns: the thread has ended, or five
\* seconds have passed while it sleeps its 60 seconds or runs the pending jobs
JoinReturns ==
    /\ handler # NoCall /\ "join" \in DOMAIN handler
    /\ threads[handler.join] \in {"dead", "sleep", "pending"}
    /\ handler' = NoCall
    /\ last' = [op |-> "join", ended |-> ~Alive(threads[handler.join])]
    /\ ret' = NoRet
    /\ UNCHANGED <<users_data, jobs, now, running, pc, queue, cur, data_file, threads, news_vars>>

\* _run_scheduler, thread i: while self.running
LoopCheck(i) ==
    /\ threads[i] = "check"
    /\ threads' = [threads EXCEPT ![i] = IF running THEN "pending" ELSE "dead"]
    /\ last' = [op |-> "loop_check", thread |-> i]
    /\ ret' = NoRet
    /\ UNCHANGED <<users_data, jobs, now, running, pc, queue, cur, data_file, handler, news_vars>>

\* schedule.run_pending() is over, with or without an exception: time.sleep(60)
LoopSleep(i) ==
    /\ threads[i] = "pending"
    /\ threads' = [threads EXCEPT ![i] = "sleep"]
    /\ last' = [op |-> "loop_sleep", thread |-> i]
    /\ ret' = NoRet
    /\ UNCHANGED <<users_data, jobs, now, running, pc, queue, cur, data_file, handler, news_vars>>

\* time.sleep(60) returns
LoopWake(i) ==
    /\ threads[i] = "sleep"
    /\ threads' = [threads EXCEPT ![i] = "check"]
    /\ last' = [op |-> "loop_wake", thread |-> i]
    /\ ret' = NoRet
    /\ UNCHANGED <<users_data, jobs, now, running, pc, queue, cur, data_file, handler, news_vars>>

InitThreads ==
    /\ users_data \in [Users -> {NoProfile} \cup StoreProfiles]
    /\ jobs = <<>>
    /\ now = StartOfClock
    /\ running = FALSE
    /\ pc = "none"
    /\ queue = <<>>
    /\ cur = NoJob
    /\ ret = NoRet
    /\ last = [op |-> "init"]
    /\ data_file = users_data
    /\ handler = NoCall
    /\ threads = <<>>
    /\ NewsIdle

NextThreads ==
    \/ StartScheduler
    \/ StopScheduler
    \/ JoinReturns
    \/ \E i \in DOMAIN threads : LoopCheck(i)
    \/ \E i \in DOMAIN threads : LoopSleep(i)
    \/ \E i \in DOMAIN threads : LoopWake(i)

SpecThreads == InitThreads /\ [][NextThreads]_vars

------------------------------------------------------------------------------
(* Properties of the loop threads *)

\* the threads that have not ended
Living == {i \in DOMAIN threads : threads[i] # "dead"}

\* C37: for any sequence of start_scheduler and stop_scheduler calls at most
\* one loop thread is alive at any time: a start while running starts no
\* second thread, and a start after a stop does not leave the previous loop
\* running beside the new one.
C37_OneLoopThread ==
    [][/\ Cardinality(Living') <= 1
       /\ (last'.op = "start_scheduler" /\ running) => threads' = threads]_vars

\* the first half alone: a start while running starts no thread
C37_StartWhileRunning ==
    [][(last'.op = "start_scheduler" /\ running) => threads' = threads]_vars

\* two loops run the pending jobs at the same time
C37_TwoLoops == Cardinality({i \in DOMAIN threads : threads[i] = "pending"}) >= 2

------------------------------------------------------------------------------
(* Properties of a job that fires for a disabled user *)

\* digest_enabled of user u in store ud
EnabledIn(ud, u) == ud[u] # [none |-> TRUE] /\ ud[u].digest_enabled

\* C38: a job that fires for a user whose digest_enabled is false at fire time
\* performs no source fetch and delivers nothing: send_digest reads the flag
\* of the store when the job fires, and with the flag false it does nothing.
C38_DisabledNoDigest ==
    [][/\ last'.op = "dispatch" =>
             (cur'.enabled <=> EnabledIn(users_data', cur'.user))
       /\ (last'.op = "finish" /\ cur.outcome # "loop_error" /\ ~cur.enabled) =>
             last'.trace = <<>>]_vars

\* a job still in the registry fired for a disabled user and did nothing
C38_Witness ==
    /\ last.op = "finish"
    /\ last.live
    /\ last.outcome = "disabled"
    /\ ~EnabledIn(users_data, last.user)
    /\ last.trace = <<>>

------------------------------------------------------------------------------
(* fetch_news: remove_duplicates, then filter_news *)

\* unique_news = remove_duplicates(all_news); final_news = filter_news(unique_news)
FinalNews(all_news) == FilterNews(RemoveDuplicates(all_news), <<>>, <<>>)

\* the two calls of fetch_news on a list of well-formed items
CallFinalNews ==
    /\ returned' = [op |-> "final_news", raised |-> FALSE,
                    value |-> FinalNews(input_news), calls |-> <<>>]
    /\ UNCHANGED <<sched_vars, input_news, input_keywords, input_exclude, user_data, world,
                   last_news>>

OrderPool ==
    {NewsItem(Str(<<"R", "a", "t", "e", "s">>), Str(<<"N", "o", " ", "D", "i", "s", "c", "o", "u", "n", "t">>)),
     NewsItem(Str(<<"r", "a", "t", "e", "s", " ">>), Str(<<"U", "p", " ", "a", "g", "a", "i", "n">>)),
     NewsItem(Str(<<"B", "i", "g", " ", "S", "A", "L", "E">>), Str(<<"S", "h", "o", "p">>)),
     NewsItem(Str(<<"R", "a", "i", "n">>), Absent),
     NewsItem(Str(<<"R", "A", "I", "N">>), Str(<<"C", "o", "l", "d">>))}

InitOrder ==
    /\ SchedulerIdle
    /\ input_news \in UNION {[1..n -> OrderPool] : n \in 0..MaxNews}
    /\ input_keywords = <<>>
    /\ input_exclude = <<>>
    /\ user_data = NoUserData
    /\ world = NoWorld
    /\ returned = NoResult
    /\ last_news = NotCached

NextOrder == CallFinalNews

SpecOrder == InitOrder /\ [][NextOrder]_vars

------------------------------------------------------------------------------
(* Properties of the order of the two steps *)

\* filtering first, then removing duplicates
FilteredFirst(list) ==
    LET Clean(news) == ~Promotional(news)
    IN  FirstOnes(SelectSeq(list, Clean), 1)

\* C39: removing duplicates and then filtering, the order of fetch_news,
\* yields the same items as filtering first and then removing duplicates: a
\* non-promotional item is never lost because an earlier item with the same
\* normalized title was promotional.
C39_OrderIrrelevant ==
    returned.op = "final_news" => returned.value = FilteredFirst(input_news)

\* what does hold: the result is part of what the other order gives
C39_Part ==
    returned.op = "final_news" =>
        \A k \in DOMAIN returned.value :
            \E i \in DOMAIN FilteredFirst(input_news) :
                Normalized(FilteredFirst(input_news)[i].title.s)
                    = Normalized(returned.value[k].title.s)

====
